---- MODULE Spec2Model ----
(***************************************************************************)
(* Constant folding of Fortran expressions (lib/evaluate/fold.cc) with the *)
(* shape analysis it relies on (lib/evaluate/shape.h).                     *)
(*                                                                         *)
(* An expression is a record with the same fields for every variant:       *)
(*   tag    the alternative held by Expr<T>::u                             *)
(*   cat    type category, kind  type kind                                 *)
(*   name   intrinsic / symbol / implied-DO index name                     *)
(*   proc   "intrinsic" or "user" for a FunctionRef                        *)
(*   val    element vector of a Constant (array element order)             *)
(*   shape  ConstantSubscripts of a Constant, declared extents of a symbol *)
(*          (an extent of Unknown is a std::nullopt extent)                *)
(*   args   owned operand subtrees                                         *)
(* REAL values are the small integral reals, which every REAL kind holds   *)
(* exactly.                                                                *)
(***************************************************************************)
EXTENDS Integers, Sequences, FiniteSets, TLC

VARIABLES pc, ctx, expr, result, messages, dead, first, folder, fir

vars == <<pc, ctx, expr, result, messages, dead, first, folder, fir>>

(***************************************************************************)
(* Bounds of the explored inputs.                                          *)
(***************************************************************************)
MaxBound == 3
MaxElems == 3

\* The step-by-step unrolling keeps its loop index in a two's-complement
\* integer of this range, -IndexMax - 1 .. IndexMax, in place of
\* std::int64_t.
IndexMax == 7
\* Statements one FIR builder is asked to create.
MaxStatements == 2

Unknown == -1

(***************************************************************************)
(* Expression algebra (expression.h).                                      *)
(***************************************************************************)
Expr(tag, cat, kind, name, proc, val, shape, args) ==
  [tag |-> tag, cat |-> cat, kind |-> kind, name |-> name, proc |-> proc,
   val |-> val, shape |-> shape, args |-> args]

Constant(cat, kind, val, shape) ==
  Expr("Constant", cat, kind, "", "", val, shape, <<>>)

\* A scalar CHARACTER value is held as the sequence of its code points.
ScalarConstant(cat, kind, v) ==
  Constant(cat, kind, IF cat = "Character" THEN v ELSE <<v>>, <<>>)

BOZLiteralConstant(v) == Expr("BOZ", "Typeless", 0, "", "", <<v>>, <<>>, <<>>)

Designator(cat, kind, name, shape) ==
  Expr("Designator", cat, kind, name, "", <<>>, shape, <<>>)

CoarrayRef(cat, kind, name) ==
  Expr("CoarrayRef", cat, kind, name, "", <<>>, <<>>, <<>>)

ImpliedDoIndex(name) ==
  Expr("ImpliedDoIndex", "Integer", 8, name, "", <<>>, <<>>, <<>>)

FunctionRef(cat, kind, name, proc, shape, args) ==
  Expr("FunctionRef", cat, kind, name, proc, <<>>, shape, args)

Operation(tag, cat, kind, args) ==
  Expr(tag, cat, kind, "", "", <<>>, <<>>, args)

Unary(tag, x) == Operation(tag, x.cat, x.kind, <<x>>)

Binary(tag, x, y) == Operation(tag, x.cat, x.kind, <<x, y>>)

Convert(cat, kind, x) == Operation("Convert", cat, kind, <<x>>)

\* Extremum<A>: MAX for Ordering::Greater, MIN for Ordering::Less.
Extremum(ordering, x, y) ==
  Expr("Extremum", x.cat, x.kind, ordering, "", <<>>, <<>>, <<x, y>>)

ImpliedDo(name, lower, upper, stride, values) ==
  Expr("ImpliedDo", "", 0, name, "", <<>>, <<>>,
       <<lower, upper, stride>> \o values)

\* A scalar of derived type: name is the derived type spec, values the
\* component expressions in the order of the map.
StructureConstructor(name, values) ==
  Expr("StructureConstructor", "Derived", 0, name, "", <<>>, <<>>, values)

ArrayConstructor(cat, kind, values) ==
  Expr("ArrayConstructor", cat, kind, "", "", <<>>, <<>>, values)

IdoLower(ido) == ido.args[1]
IdoUpper(ido) == ido.args[2]
IdoStride(ido) == ido.args[3]
IdoValues(ido) == SubSeq(ido.args, 4, Len(ido.args))

OperationTags ==
  {"Parentheses", "Negate", "Convert", "Add", "Subtract", "Multiply",
   "Divide", "Power", "Extremum", "SetLength"}

Max(a, b) == IF a >= b THEN a ELSE b

RECURSIVE MaxRank(_)
MaxRank(xs) ==
  IF xs = <<>> THEN 0
  ELSE LET h == Head(xs)
           r == IF h.tag \in {"Constant", "Designator", "FunctionRef"}
                  THEN Len(h.shape)
                ELSE IF h.tag = "ArrayConstructor" THEN 1
                ELSE IF h.tag \in OperationTags THEN MaxRank(h.args)
                ELSE 0
       IN Max(r, MaxRank(Tail(xs)))

Rank(e) == MaxRank(<<e>>)

(***************************************************************************)
(* Numeric primitives: two's-complement INTEGER(kind).                     *)
(***************************************************************************)
HUGE(kind) ==
  IF kind = 1 THEN 127 ELSE IF kind = 2 THEN 32767 ELSE 2147483647

\* Kinds 8 and 16 hold every value the model builds; they cannot overflow.
Wide(kind) == kind >= 8

InRange(kind, v) == Wide(kind) \/ (v >= -HUGE(kind) - 1 /\ v <= HUGE(kind))

AddSigned(kind, a, b) ==
  IF Wide(kind) THEN [value |-> a + b, overflow |-> FALSE]
  ELSE IF b > 0 /\ a > HUGE(kind) - b
    THEN [value |-> (a - HUGE(kind) - 1) + (b - HUGE(kind) - 1),
          overflow |-> TRUE]
  ELSE IF b < 0 /\ a < (-HUGE(kind) - 1) - b
    THEN [value |-> (a + HUGE(kind) + 1) + (b + HUGE(kind) + 1),
          overflow |-> TRUE]
  ELSE [value |-> a + b, overflow |-> FALSE]

Negate(kind, a) ==
  IF ~Wide(kind) /\ a = -HUGE(kind) - 1
    THEN [value |-> a, overflow |-> TRUE]
    ELSE [value |-> -a, overflow |-> FALSE]

SubtractSigned(kind, a, b) ==
  IF ~Wide(kind) /\ b = -HUGE(kind) - 1
    THEN IF a >= 0
           THEN [value |-> (a - HUGE(kind)) - 1 , overflow |-> TRUE]
           ELSE [value |-> (a + HUGE(kind)) + 1, overflow |-> FALSE]
    ELSE AddSigned(kind, a, -b)

Abs(a) == IF a < 0 THEN -a ELSE a

\* The modelled products stay below 2^31, so the wrapped value is computed
\* directly.
MultiplySigned(kind, a, b) ==
  LET p == a * b
      m == 2 * (HUGE(kind) + 1)
  IN IF Wide(kind) \/ InRange(kind, p)
       THEN [value |-> p, overflow |-> FALSE]
       ELSE [value |-> ((p + HUGE(kind) + 1) % m) - HUGE(kind) - 1,
             overflow |-> TRUE]

\* The quotient rounded toward zero, for a positive divisor p.
TruncatePositive(a, p) ==
  LET q == a \div p
  IN IF a < 0 /\ a % p # 0 THEN q + 1 ELSE q

\* -b is not representable for the most negative 32-bit divisor.
Truncate(a, b) ==
  IF b > 0 THEN TruncatePositive(a, b)
  ELSE IF b = -2147483647 - 1 THEN (IF a = b THEN 1 ELSE 0)
  ELSE -TruncatePositive(a, -b)

DivideSigned(kind, a, b) ==
  IF b = 0
    THEN [quotient |-> 0, divisionByZero |-> TRUE, overflow |-> FALSE]
  ELSE IF ~Wide(kind) /\ a = -HUGE(kind) - 1 /\ b = -1
    THEN [quotient |-> a, divisionByZero |-> FALSE, overflow |-> TRUE]
  ELSE [quotient |-> Truncate(a, b), divisionByZero |-> FALSE,
        overflow |-> FALSE]

ConvertSigned(kind, a) ==
  IF InRange(kind, a) THEN [value |-> a, overflow |-> FALSE]
  ELSE LET m == 2 * (HUGE(kind) + 1)
       IN [value |-> ((a + HUGE(kind) + 1) % m) - HUGE(kind) - 1,
           overflow |-> TRUE]

\* Integer::Power.  x**0 is 1 (0**0 sets zeroToZero); a negative exponent
\* gives 0, except for the bases 1 and -1, and for base 0, which sets
\* divisionByZero (integer.h: the value is then MASKR(bits - 1)); a positive
\* exponent multiplies with wrap-around and sets overflow.
RECURSIVE PowerLoop(_, _, _, _)
PowerLoop(kind, base, n, acc) ==
  IF n = 0 THEN acc
  ELSE LET Next1(product) ==
             PowerLoop(kind, base, n - 1,
                       [power |-> product.value,
                        overflow |-> acc.overflow \/ product.overflow])
       IN Next1(MultiplySigned(kind, acc.power, base))

Power(kind, base, exponent) ==
  LET Flags(power, divisionByZero, overflow, zeroToZero) ==
        [power |-> power, divisionByZero |-> divisionByZero,
         overflow |-> overflow, zeroToZero |-> zeroToZero]
      Positive(p) == Flags(p.power, FALSE, p.overflow, FALSE)
  IN IF exponent = 0 THEN Flags(1, FALSE, FALSE, base = 0)
     ELSE IF exponent < 0
       THEN IF base = 0 THEN Flags(HUGE(kind), TRUE, FALSE, FALSE)
            ELSE IF base = 1 THEN Flags(1, FALSE, FALSE, FALSE)
            ELSE IF base = -1
              THEN Flags(IF exponent % 2 = 1 THEN -1 ELSE 1,
                         FALSE, FALSE, FALSE)
            ELSE Flags(0, FALSE, FALSE, FALSE)
     ELSE Positive(PowerLoop(kind, base, exponent,
                             [power |-> 1, overflow |-> FALSE]))

(***************************************************************************)
(* Bit intrinsics of INTEGER(kind), on the unsigned reading of the value.  *)
(***************************************************************************)
RECURSIVE Pow2(_)
Pow2(n) == IF n <= 0 THEN 1 ELSE 2 * Pow2(n - 1)

BitSize(kind) == 8 * kind

ToUnsigned(kind, a) == IF a < 0 THEN a + Pow2(BitSize(kind)) ELSE a

ToSigned(kind, u) ==
  IF u >= Pow2(BitSize(kind) - 1) THEN u - Pow2(BitSize(kind)) ELSE u

BTEST(kind, a, pos) == (ToUnsigned(kind, a) \div Pow2(pos)) % 2 = 1

IBCLR(kind, a, pos) ==
  IF pos < 0 \/ pos >= BitSize(kind) \/ ~BTEST(kind, a, pos) THEN a
  ELSE ToSigned(kind, ToUnsigned(kind, a) - Pow2(pos))

IBSET(kind, a, pos) ==
  IF pos < 0 \/ pos >= BitSize(kind) \/ BTEST(kind, a, pos) THEN a
  ELSE ToSigned(kind, ToUnsigned(kind, a) + Pow2(pos))

SHIFTL(kind, a, n) ==
  IF n <= 0 THEN a
  ELSE IF n >= BitSize(kind) THEN 0
  ELSE ToSigned(kind, (ToUnsigned(kind, a) * Pow2(n)) % Pow2(BitSize(kind)))

SHIFTR(kind, a, n) ==
  IF n <= 0 THEN a
  ELSE IF n >= BitSize(kind) THEN 0
  ELSE ToSigned(kind, ToUnsigned(kind, a) \div Pow2(n))

SHIFTA(kind, a, n) ==
  IF n <= 0 THEN a
  ELSE IF n >= BitSize(kind) THEN (IF a < 0 THEN -1 ELSE 0)
  ELSE IF a >= 0 THEN a \div Pow2(n)
  ELSE -((-a - 1) \div Pow2(n)) - 1

ISHFT(kind, a, n) ==
  IF n < 0 THEN SHIFTR(kind, a, -n) ELSE SHIFTL(kind, a, n)

RECURSIVE BitwiseAnd(_, _, _)
BitwiseAnd(u, v, n) ==
  IF n = 0 THEN 0
  ELSE (IF u % 2 = 1 /\ v % 2 = 1 THEN 1 ELSE 0)
       + 2 * BitwiseAnd(u \div 2, v \div 2, n - 1)

IAND(kind, a, b) ==
  ToSigned(kind,
    BitwiseAnd(ToUnsigned(kind, a), ToUnsigned(kind, b), BitSize(kind)))

IOR(kind, a, b) ==
  ToSigned(kind, ToUnsigned(kind, a) + ToUnsigned(kind, b)
    - BitwiseAnd(ToUnsigned(kind, a), ToUnsigned(kind, b), BitSize(kind)))

IEOR(kind, a, b) ==
  ToSigned(kind, ToUnsigned(kind, a) + ToUnsigned(kind, b)
    - 2 * BitwiseAnd(ToUnsigned(kind, a), ToUnsigned(kind, b), BitSize(kind)))

\* BGE..BLT compare the operands as unsigned bit patterns; in the widest
\* kind a negative value has its top bit set and exceeds every other.
UnsignedLess(a, b) ==
  IF (a < 0) = (b < 0) THEN a < b ELSE b < 0

BGE(a, b) == ~UnsignedLess(a, b)
BGT(a, b) == UnsignedLess(b, a)
BLE(a, b) == ~UnsignedLess(b, a)
BLT(a, b) == UnsignedLess(a, b)

\* std::invoke(fptr, ...) on the member the dispatch selected.
Invoke(fptr, kind, v) ==
  CASE fptr = "IBCLR" -> IBCLR(kind, v[1], v[2])
    [] fptr = "IBSET" -> IBSET(kind, v[1], v[2])
    [] fptr = "ISHFT" -> ISHFT(kind, v[1], v[2])
    [] fptr = "SHIFTA" -> SHIFTA(kind, v[1], v[2])
    [] fptr = "SHIFTR" -> SHIFTR(kind, v[1], v[2])
    [] fptr = "SHIFTL" -> SHIFTL(kind, v[1], v[2])
    [] fptr = "IAND" -> IAND(kind, v[1], v[2])
    [] fptr = "IOR" -> IOR(kind, v[1], v[2])
    [] fptr = "IEOR" -> IEOR(kind, v[1], v[2])
    [] fptr = "BGE" -> IF BGE(v[1], v[2]) THEN 1 ELSE 0
    [] fptr = "BGT" -> IF BGT(v[1], v[2]) THEN 1 ELSE 0
    [] fptr = "BLE" -> IF BLE(v[1], v[2]) THEN 1 ELSE 0
    [] fptr = "BLT" -> IF BLT(v[1], v[2]) THEN 1 ELSE 0
    [] fptr = "HOST" -> v[1]
    [] OTHER -> 0

(***************************************************************************)
(* Diagnostics and fold results.                                           *)
(***************************************************************************)
Say(sev, text, kind) == [sev |-> sev, text |-> text, kind |-> kind]

Aborted == Expr("Aborted", "", 0, "", "", <<>>, <<>>, <<>>)

\* A value returned to the caller, with the diagnostics emitted on the way.
Ret(e, m) == [e |-> e, m |-> m, die |-> FALSE]

\* common::die or a failed CHECK: the process aborts, nothing is returned.
Die(m) == [e |-> Aborted, m |-> m, die |-> TRUE]

(***************************************************************************)
(* Constant<T> subscripts (array element order, first subscript fastest). *)
(***************************************************************************)
RECURSIVE Product(_)
Product(s) == IF s = <<>> THEN 1 ELSE Head(s) * Product(Tail(s))

TotalElementCount(shape) == Product(shape)

InitialSubscripts(shape) == [d \in 1..Len(shape) |-> 1]

RECURSIVE IncrementFrom(_, _, _)
IncrementFrom(index, shape, d) ==
  IF d > Len(shape) THEN [index |-> index, more |-> FALSE]
  ELSE IF index[d] + 1 <= shape[d]
    THEN [index |-> [index EXCEPT ![d] = index[d] + 1], more |-> TRUE]
  ELSE IncrementFrom([index EXCEPT ![d] = 1], shape, d + 1)

IncrementSubscripts(index, shape) == IncrementFrom(index, shape, 1)

RECURSIVE SubscriptsToOffset(_, _)
SubscriptsToOffset(index, shape) ==
  IF index = <<>> THEN 0
  ELSE (Head(index) - 1)
       + Head(shape) * SubscriptsToOffset(Tail(index), Tail(shape))

At(c, index) == c.val[SubscriptsToOffset(index, c.shape) + 1]

(***************************************************************************)
(* Tree predicates (the boolean-collecting visitor).                       *)
(***************************************************************************)
RECURSIVE CountNodes(_, _)
\* Number of nodes of the forest xs whose tag is in tags.
CountNodes(xs, tags) ==
  IF xs = <<>> THEN 0
  ELSE (IF Head(xs).tag \in tags THEN 1 ELSE 0)
       + CountNodes(Head(xs).args, tags) + CountNodes(Tail(xs), tags)

ContainsAnyImpliedDoIndex(e) == CountNodes(<<e>>, {"ImpliedDoIndex"}) > 0

\* Visitor<UnexpandabilityFindingVisitor>{0}.Traverse(expr): the result starts
\* false and a handled FunctionRef or CoarrayRef returns true.
UnexpandabilityFindingVisitor(e) ==
  CountNodes(<<e>>, {"FunctionRef", "CoarrayRef"}) > 0

IsExpandableScalar(e) == UnexpandabilityFindingVisitor(e)

(***************************************************************************)
(* Constant extraction (tools.h).                                          *)
(***************************************************************************)
IsConstant(e) == e.tag = "Constant"

IsScalarConstant(e) == e.tag = "Constant" /\ Len(e.shape) = 0

GetScalarConstantValue(e) == IF e.cat = "Character" THEN e.val ELSE e.val[1]

IsInt64(e) == IsScalarConstant(e) /\ e.cat = "Integer"

ToInt64(e) == e.val[1]

OperandsAreConstants(x) ==
  IsScalarConstant(x.args[1]) /\ IsScalarConstant(x.args[2])

\* A conversion to the type the operand already has is the operand itself.
ConvertToType(cat, kind, x) ==
  IF x.tag = "BOZ"
    THEN ScalarConstant(cat, kind,
           ToSigned(kind, x.val[1] % Pow2(BitSize(kind))))
  ELSE IF x.cat = cat /\ x.kind = kind THEN x
  ELSE Convert(cat, kind, x)

(***************************************************************************)
(* FoldingContext: the implied-DO index map and the host library.          *)
(***************************************************************************)
GetImpliedDo(c, name) == name \in DOMAIN c.ido

StartImpliedDo(c, name, n) == [c EXCEPT !.ido = (name :> n) @@ c.ido]

EmptyIdo == [n \in {} |-> 0]

NoContext == [ido |-> EmptyIdo, host |-> {}]

(***************************************************************************)
(* Shape analysis (shape.h).  An extent is the value its expression folds  *)
(* to, or Unknown.                                                         *)
(***************************************************************************)
RECURSIVE Fold(_, _)
RECURSIVE GetShape(_)
RECURSIVE GetExtentOfValues(_)

NoShape == [has |-> FALSE, shape |-> <<>>]
SomeShape(s) == [has |-> TRUE, shape |-> s]

GetSize(shape) ==
  IF \E d \in 1..Len(shape) : shape[d] = Unknown THEN Unknown
  ELSE Product(shape)

ExtentValue(e) ==
  LET Value(f) == IF ~f.die /\ IsInt64(f.e)
                    THEN [has |-> TRUE, v |-> ToInt64(f.e)]
                    ELSE [has |-> FALSE, v |-> 0]
  IN Value(Fold(NoContext, e))

CountTrips(lower, upper, stride) ==
  LET Trips(l, u, s) ==
        IF ~l.has \/ ~u.has \/ ~s.has \/ s.v = 0 THEN Unknown
        ELSE Max(0, DivideSigned(8, u.v - l.v + s.v, s.v).quotient)
  IN Trips(ExtentValue(lower), ExtentValue(upper), ExtentValue(stride))

\* The extent of an implied DO is that of one trip through its body.
GetExtent_OneTrip(value) ==
  LET Size(xShape) == IF xShape.has THEN GetSize(xShape.shape) ELSE Unknown
  IN IF value.tag = "ImpliedDo"
       THEN IF ~ContainsAnyImpliedDoIndex(IdoLower(value))
               /\ ~ContainsAnyImpliedDoIndex(IdoUpper(value))
               /\ ~ContainsAnyImpliedDoIndex(IdoStride(value))
              THEN GetExtentOfValues(IdoValues(value))
              ELSE Unknown
       ELSE Size(GetShape(value))

GetExtent(value) ==
  LET Times(n, t) == IF n = Unknown \/ t = Unknown THEN Unknown ELSE n * t
      Size(xShape) == IF xShape.has THEN GetSize(xShape.shape) ELSE Unknown
  IN IF value.tag = "ImpliedDo"
       THEN IF ~ContainsAnyImpliedDoIndex(IdoLower(value))
               /\ ~ContainsAnyImpliedDoIndex(IdoUpper(value))
               /\ ~ContainsAnyImpliedDoIndex(IdoStride(value))
              THEN Times(GetExtentOfValues(IdoValues(value)),
                         CountTrips(IdoLower(value), IdoUpper(value),
                                    IdoStride(value)))
              ELSE Unknown
       ELSE Size(GetShape(value))

GetExtentOfValues(values) ==
  LET Plus(n, rest) ==
        IF n = Unknown \/ rest = Unknown THEN Unknown ELSE n + rest
  IN IF values = <<>> THEN 0
     ELSE Plus(GetExtent(Head(values)), GetExtentOfValues(Tail(values)))

GetShape(e) ==
  IF e.tag \in {"Constant", "Designator", "CoarrayRef", "FunctionRef"}
    THEN SomeShape(e.shape)
  ELSE IF e.tag = "ArrayConstructor"
    THEN SomeShape(<<GetExtentOfValues(e.args)>>)
  ELSE IF e.tag \in OperationTags
    THEN IF Len(e.args) > 1 /\ Rank(e.args[2]) > 0
           THEN GetShape(e.args[2])
           ELSE GetShape(e.args[1])
  ELSE SomeShape(<<>>)

AsConstantExtents(shape) ==
  IF \E d \in 1..Len(shape) : shape[d] = Unknown THEN NoShape
  ELSE SomeShape(shape)

\* One diagnostic for a failed check, none otherwise.
CheckConformance(left, right) ==
  IF Len(left) # Len(right)
       \/ \E d \in 1..Len(left) :
            left[d] # Unknown /\ right[d] # Unknown /\ left[d] # right[d]
    THEN <<Say("err", "shapes are not conformable", 0)>>
    ELSE <<>>

(***************************************************************************)
(* The folder (fold.cc).  Every rewrite returns Ret(expression, messages)  *)
(* or Die(messages).                                                       *)
(***************************************************************************)

\* An array is handed back as a vector of its elements.
(***************************************************************************)
(* Comparisons.  A REAL value is an integer, NotANumber or MinusZero; a    *)
(* CHARACTER value is the sequence of its code points.                     *)
(***************************************************************************)
NotANumber == 1000001
MinusZero == 1000002

IsNotANumber(v) == v = NotANumber

CompareSigned(a, b) ==
  IF a < b THEN "Less" ELSE IF a > b THEN "Greater" ELSE "Equal"

\* Real::Compare: a NaN is unordered, the two zeros are equal.
CompareReal(a, b) ==
  LET Number(v) == IF v = MinusZero THEN 0 ELSE v
  IN IF IsNotANumber(a) \/ IsNotANumber(b) THEN "Unordered"
     ELSE CompareSigned(Number(a), Number(b))

\* Three-way lexical comparison of two strings.
RECURSIVE Compare(_, _)
Compare(a, b) ==
  IF a = <<>> THEN (IF b = <<>> THEN "Equal" ELSE "Less")
  ELSE IF b = <<>> THEN "Greater"
  ELSE IF Head(a) # Head(b) THEN CompareSigned(Head(a), Head(b))
  ELSE Compare(Tail(a), Tail(b))

FoldOperation_Flattened(c, x) ==
  Ret(IF Len(x.shape) > 1 THEN [x EXCEPT !.shape = <<Len(x.val)>>] ELSE x,
      <<>>)

\* no-op base case: the overload that takes an Expr by value.
FoldOperation(c, x) == Ret(x, <<>>)

\* The implied DO map is not consulted.
FoldImpliedDoIndex_Unbound(c, iDo) == Ret(iDo, <<>>)

FoldImpliedDoIndex(c, iDo) ==
  IF GetImpliedDo(c, iDo.name)
    THEN Ret(ScalarConstant("Integer", 8, c.ido[iDo.name]), <<>>)
    ELSE Ret(iDo, <<>>)

(***************************************************************************)
(* Array constructor folding.  The folder state is                         *)
(*   ok     the value FoldArray returns                                    *)
(*   elems  elements_                                                      *)
(*   m      diagnostics emitted so far, die  the process aborted           *)
(***************************************************************************)
RECURSIVE FoldArrayValues(_, _, _)
RECURSIVE ImpliedDoLoop(_, _, _, _, _, _, _)
RECURSIVE CopyElements(_, _, _)

\* Copy elements in Fortran array element order.
CopyElements(k, n, index) ==
  IF n = 0 THEN <<>>
  ELSE <<At(k, index)>>
       \o CopyElements(k, n - 1, IncrementSubscripts(index, k.shape).index)

FoldArrayExpr(c, x, acc) ==
  LET Collect(folded) ==
        IF folded.die THEN [acc EXCEPT !.die = TRUE, !.m = acc.m \o folded.m]
        ELSE IF IsConstant(folded.e)
          THEN [acc EXCEPT !.ok = TRUE, !.m = acc.m \o folded.m,
                  !.elems = acc.elems
                    \o CopyElements(folded.e, Len(folded.e.val),
                                    InitialSubscripts(folded.e.shape))]
          ELSE [acc EXCEPT !.ok = FALSE, !.m = acc.m \o folded.m]
  IN Collect(Fold(c, x))

\* The loop advances by one whatever the stride.
FoldArrayImpliedDo_UnitStride(c, iDo, acc) ==
  LET Loop(lower, upper, stride) ==
        LET a == [acc EXCEPT !.m = acc.m \o lower.m \o upper.m \o stride.m]
        IN IF lower.die \/ upper.die \/ stride.die
             THEN [a EXCEPT !.die = TRUE]
           ELSE IF IsInt64(lower.e) /\ IsInt64(upper.e) /\ IsInt64(stride.e)
             THEN IF ToInt64(stride.e) = 0 THEN [a EXCEPT !.ok = FALSE]
                  ELSE ImpliedDoLoop(c, iDo, ToInt64(lower.e),
                                     ToInt64(upper.e),
                                     IF ToInt64(stride.e) > 0 THEN 1 ELSE -1,
                                     TRUE, a)
           ELSE [a EXCEPT !.ok = FALSE]
  IN Loop(Fold(c, IdoLower(iDo)), Fold(c, IdoUpper(iDo)),
          Fold(c, IdoStride(iDo)))

FoldArrayImpliedDo(c, iDo, acc) ==
  LET Loop(lower, upper, stride) ==
        LET a == [acc EXCEPT !.m = acc.m \o lower.m \o upper.m \o stride.m]
        IN IF lower.die \/ upper.die \/ stride.die
             THEN [a EXCEPT !.die = TRUE]
           ELSE IF IsInt64(lower.e) /\ IsInt64(upper.e) /\ IsInt64(stride.e)
             THEN IF ToInt64(stride.e) = 0 THEN [a EXCEPT !.ok = FALSE]
                  ELSE ImpliedDoLoop(c, iDo, ToInt64(lower.e),
                                     ToInt64(upper.e), ToInt64(stride.e),
                                     TRUE, a)
           ELSE [a EXCEPT !.ok = FALSE]
  IN Loop(Fold(c, IdoLower(iDo)), Fold(c, IdoUpper(iDo)),
          Fold(c, IdoStride(iDo)))

ImpliedDoLoop(c, iDo, j, end, step, res, acc) ==
  LET Continue(b) ==
        IF b.die THEN b
        ELSE ImpliedDoLoop(c, iDo, j + step, end, step, res /\ b.ok, b)
  IN IF (step > 0 /\ j <= end) \/ (step < 0 /\ j >= end)
       THEN Continue(FoldArrayValues(StartImpliedDo(c, iDo.name, j),
                                     IdoValues(iDo), acc))
       ELSE [acc EXCEPT !.ok = res]

FoldArrayValue(c, x, acc) ==
  IF x.tag = "ImpliedDo" THEN FoldArrayImpliedDo(c, x, acc)
  ELSE FoldArrayExpr(c, x, acc)

FoldArrayValues(c, xs, acc) ==
  LET Rest(a) ==
        IF a.die \/ ~a.ok THEN a ELSE FoldArrayValues(c, Tail(xs), a)
  IN IF xs = <<>> THEN [acc EXCEPT !.ok = TRUE]
     ELSE Rest(FoldArrayValue(c, Head(xs), acc))

\* The extent is the number of values written in the constructor.
FoldArray_CountValues(c, array) ==
  LET Finish(a) ==
        IF a.die THEN Die(a.m)
        ELSE IF a.ok
          THEN Ret(Constant(array.cat, array.kind, a.elems,
                            <<Len(array.args)>>),
                   a.m)
          ELSE Ret(array, a.m)
  IN Finish(FoldArrayValues(c, array.args,
              [ok |-> TRUE, elems |-> <<>>, m |-> <<>>, die |-> FALSE]))

FoldArray(c, array) ==
  LET Finish(a) ==
        IF a.die THEN Die(a.m)
        ELSE IF a.ok
          THEN Ret(Constant(array.cat, array.kind, a.elems, <<Len(a.elems)>>),
                   a.m)
          ELSE Ret(array, a.m)
  IN Finish(FoldArrayValues(c, array.args,
              [ok |-> TRUE, elems |-> <<>>, m |-> <<>>, die |-> FALSE]))

(***************************************************************************)
(* Array operation elemental application.                                  *)
(***************************************************************************)
RECURSIVE AsFlatArrayConstructor(_)
RECURSIVE MaterializeElements(_, _)

NoFlat == [has |-> FALSE, e |-> Aborted]
SomeFlat(e) == [has |-> TRUE, e |-> e]

ArrayConstructorIsFlat(values) ==
  \A i \in 1..Len(values) : values[i].tag # "ImpliedDo"

MaterializeElements(k, at) ==
  LET nxt == IncrementSubscripts(at, k.shape)
  IN <<ScalarConstant(k.cat, k.kind, At(k, at))>>
     \o (IF nxt.more THEN MaterializeElements(k, nxt.index) ELSE <<>>)

AsFlatArrayConstructor(e) ==
  IF IsConstant(e)
    THEN SomeFlat(ArrayConstructor(e.cat, e.kind,
           IF Len(e.val) > 0
             THEN MaterializeElements(e, InitialSubscripts(e.shape))
             ELSE <<>>))
  ELSE IF e.tag = "ArrayConstructor"
    THEN IF ArrayConstructorIsFlat(e.args) THEN SomeFlat(e) ELSE NoFlat
  ELSE IF e.tag = "Parentheses" THEN AsFlatArrayConstructor(e.args[1])
  ELSE NoFlat

FromArrayConstructor(c, values, shape, m) ==
  LET Checked(r, resultShape) ==
        IF resultShape.has /\ AsConstantExtents(resultShape.shape).has
             /\ shape.shape = resultShape.shape
          THEN Ret(r.e, m \o r.m)
          ELSE Die(m \o r.m)
      Wrap(r) ==
        IF r.die THEN Die(m \o r.m)
        ELSE IF ~shape.has THEN Ret(r.e, m \o r.m)
        ELSE IF IsConstant(r.e)
          THEN Ret([r.e EXCEPT !.shape = shape.shape], m \o r.m)
        ELSE Checked(r, GetShape(r.e))
  IN Wrap(Fold(c, values))

\* f: the operation rebuilt over one pair of elements.
Rebuild(x, operands) == [x EXCEPT !.args = operands]

\* Unary case
MapOperation1(c, x, shape, values, m) ==
  FromArrayConstructor(c,
    ArrayConstructor(x.cat, x.kind,
      [i \in 1..Len(values.args) |->
         FoldOperation(c, Rebuild(x, <<values.args[i]>>)).e]),
    AsConstantExtents(shape), m)

\* The right iterator is never advanced.
MapOperationAA_NoAdvance(c, x, shape, leftValues, rightValues, m) ==
  IF Len(leftValues.args) > 0 /\ Len(rightValues.args) = 0 THEN Die(m)
  ELSE FromArrayConstructor(c,
         ArrayConstructor(x.cat, x.kind,
           [i \in 1..Len(leftValues.args) |->
              FoldOperation(c,
                Rebuild(x, <<leftValues.args[i], rightValues.args[1]>>)).e]),
         AsConstantExtents(shape), m)

\* array * array case: CHECK(rightIter != rightArrConst.end()) for every
\* left element.
MapOperationAA(c, x, shape, leftValues, rightValues, m) ==
  IF Len(leftValues.args) > Len(rightValues.args) THEN Die(m)
  ELSE FromArrayConstructor(c,
         ArrayConstructor(x.cat, x.kind,
           [i \in 1..Len(leftValues.args) |->
              FoldOperation(c,
                Rebuild(x, <<leftValues.args[i], rightValues.args[i]>>)).e]),
         AsConstantExtents(shape), m)

\* array * scalar case
MapOperationAS(c, x, shape, leftValues, rightScalar, m) ==
  FromArrayConstructor(c,
    ArrayConstructor(x.cat, x.kind,
      [i \in 1..Len(leftValues.args) |->
         FoldOperation(c, Rebuild(x, <<leftValues.args[i], rightScalar>>)).e]),
    AsConstantExtents(shape), m)

\* scalar * array case
MapOperationSA(c, x, shape, leftScalar, rightValues, m) ==
  FromArrayConstructor(c,
    ArrayConstructor(x.cat, x.kind,
      [i \in 1..Len(rightValues.args) |->
         FoldOperation(c, Rebuild(x, <<leftScalar, rightValues.args[i]>>)).e]),
    AsConstantExtents(shape), m)

\* The result of ApplyElementwise: has = an array result (or an abort) in
\* val; otherwise x is the operation with its operands folded in place and
\* m the diagnostics of folding them.
Lifted(val) == [has |-> TRUE, val |-> val, x |-> Aborted, m |-> <<>>]
NotLifted(x, m) == [has |-> FALSE, val |-> Die(<<>>), x |-> x, m |-> m]

ApplyElementwise1(c, x) ==
  LET Apply(l, shape, values) ==
        IF l.die THEN Lifted(l)
        ELSE IF Rank(l.e) > 0 /\ shape.has /\ values.has
          THEN Lifted(MapOperation1(c, Rebuild(x, <<l.e>>), shape.shape,
                                    values.e, l.m))
        ELSE NotLifted(Rebuild(x, <<l.e>>), l.m)
      Operand(l) == Apply(l, GetShape(l.e), AsFlatArrayConstructor(l.e))
  IN Operand(Fold(c, x.args[1]))

\* The right operand reports before the left one.
ApplyElementwise2_RightFirst(c, x) ==
  LET Apply(l, r, leftShape, rightShape, left, right) ==
        LET op == Rebuild(x, <<l.e, r.e>>)
            m == r.m \o l.m
        IN IF l.die THEN Lifted(l)
           ELSE IF r.die THEN Lifted(Die(m))
           ELSE IF Rank(l.e) > 0
             THEN IF leftShape.has /\ left.has
                    THEN IF Rank(r.e) > 0
                           THEN IF rightShape.has /\ right.has
                                  THEN Lifted(MapOperationAA(c, op,
                                         leftShape.shape, left.e, right.e,
                                         m \o CheckConformance(
                                                leftShape.shape,
                                                rightShape.shape)))
                                  ELSE NotLifted(op, m)
                         ELSE IF IsExpandableScalar(r.e)
                           THEN Lifted(MapOperationAS(c, op, leftShape.shape,
                                                      left.e, r.e, m))
                         ELSE NotLifted(op, m)
                    ELSE NotLifted(op, m)
           ELSE IF Rank(r.e) > 0 /\ IsExpandableScalar(l.e)
                     /\ rightShape.has /\ right.has
             THEN Lifted(MapOperationSA(c, op, rightShape.shape, l.e,
                                        right.e, m))
           ELSE NotLifted(op, m)
      Operands(l, r) ==
        Apply(l, r, GetShape(l.e), GetShape(r.e),
              AsFlatArrayConstructor(l.e), AsFlatArrayConstructor(r.e))
  IN Operands(Fold(c, x.args[1]), Fold(c, x.args[2]))

ApplyElementwise2(c, x) ==
  LET Apply(l, r, leftShape, rightShape, left, right) ==
        LET op == Rebuild(x, <<l.e, r.e>>)
            m == l.m \o r.m
        IN IF l.die THEN Lifted(l)
           ELSE IF r.die THEN Lifted(Die(m))
           ELSE IF Rank(l.e) > 0
             THEN IF leftShape.has /\ left.has
                    THEN IF Rank(r.e) > 0
                           THEN IF rightShape.has /\ right.has
                                  THEN Lifted(MapOperationAA(c, op,
                                         leftShape.shape, left.e, right.e,
                                         m \o CheckConformance(
                                                leftShape.shape,
                                                rightShape.shape)))
                                  ELSE NotLifted(op, m)
                         ELSE IF IsExpandableScalar(r.e)
                           THEN Lifted(MapOperationAS(c, op, leftShape.shape,
                                                      left.e, r.e, m))
                         ELSE NotLifted(op, m)
                    ELSE NotLifted(op, m)
           ELSE IF Rank(r.e) > 0 /\ IsExpandableScalar(l.e)
                     /\ rightShape.has /\ right.has
             THEN Lifted(MapOperationSA(c, op, rightShape.shape, l.e,
                                        right.e, m))
           ELSE NotLifted(op, m)
      Operands(l, r) ==
        Apply(l, r, GetShape(l.e), GetShape(r.e),
              AsFlatArrayConstructor(l.e), AsFlatArrayConstructor(r.e))
  IN Operands(Fold(c, x.args[1]), Fold(c, x.args[2]))

(***************************************************************************)
(* Unary and binary operations.  The arithmetic operations are modelled    *)
(* for INTEGER operands.                                                   *)
(***************************************************************************)
Result(x, v) == ScalarConstant(x.cat, x.kind, v)

NoString == [has |-> FALSE, str |-> <<>>]
SomeString(str) == [has |-> TRUE, str |-> str]

\* Every code point is copied, whatever its value.
ConvertString_Unchecked(toKind, fromKind, string) == SomeString(string)

ConvertString(toKind, fromKind, string) ==
  IF toKind = fromKind THEN SomeString(string)
  ELSE IF \E i \in 1..Len(string) : string[i] > 127 THEN NoString
  ELSE SomeString(string)

FoldConvert(c, x) ==
  LET Finish(a) ==
        LET operand == a.x.args[1]
            converted == ConvertSigned(x.kind, GetScalarConstantValue(operand))
            Characters(string) ==
              IF string.has THEN Ret(Result(x, string.str), a.m)
              ELSE Ret(a.x, a.m)
        IN IF a.has THEN a.val
           ELSE IF IsScalarConstant(operand) /\ x.cat = "Integer"
                     /\ operand.cat = "Integer"
             THEN Ret(Result(x, converted.value),
                      a.m \o (IF converted.overflow
                                THEN <<Say("en",
                                           "INTEGER to INTEGER conversion overflowed",
                                           x.kind)>>
                                ELSE <<>>))
           ELSE IF IsScalarConstant(operand) /\ x.cat = "Character"
                     /\ operand.cat = "Character"
             THEN Characters(ConvertString(x.kind, operand.kind,
                                           GetScalarConstantValue(operand)))
           ELSE Ret(a.x, a.m)
  IN Finish(ApplyElementwise1(c, x))

\* Parentheses around a scalar constant are dropped.
FoldParentheses_Elide(c, x) ==
  LET Wrap(operand) ==
        IF operand.die THEN operand
        ELSE IF IsScalarConstant(operand.e)
          THEN Ret(Result(x, GetScalarConstantValue(operand.e)), operand.m)
        ELSE Ret(Rebuild(x, <<operand.e>>), operand.m)
  IN Wrap(Fold(c, x.args[1]))

FoldParentheses(c, x) ==
  LET Wrap(operand) ==
        IF operand.die THEN operand
        ELSE IF IsScalarConstant(operand.e)
          \* Preserve parentheses, even around constants.
          THEN Ret(Rebuild(x,
                     <<Result(x, GetScalarConstantValue(operand.e))>>),
                   operand.m)
        ELSE Ret(Rebuild(x, <<operand.e>>), operand.m)
  IN Wrap(Fold(c, x.args[1]))

\* The operand's value is returned without its sign being changed.
FoldNegate_SameSign(c, x) ==
  LET Finish(a) ==
        IF a.has THEN a.val
        ELSE IF IsScalarConstant(a.x.args[1])
          THEN Ret(Result(x, GetScalarConstantValue(a.x.args[1])), a.m)
        ELSE Ret(a.x, a.m)
  IN Finish(ApplyElementwise1(c, x))

FoldNegate(c, x) ==
  LET Finish(a) ==
        LET negated == Negate(x.kind, GetScalarConstantValue(a.x.args[1]))
        IN IF a.has THEN a.val
           ELSE IF IsScalarConstant(a.x.args[1])
             THEN Ret(Result(x, negated.value),
                      a.m \o (IF negated.overflow
                                THEN <<Say("en", "INTEGER negation overflowed",
                                           x.kind)>>
                                ELSE <<>>))
           ELSE Ret(a.x, a.m)
  IN Finish(ApplyElementwise1(c, x))

\* The overflow flag of the sum is ignored.
FoldAdd_Silent(c, x) ==
  LET Finish(a) ==
        LET sum == AddSigned(x.kind, GetScalarConstantValue(a.x.args[1]),
                     GetScalarConstantValue(a.x.args[2]))
        IN IF a.has THEN a.val
           ELSE IF OperandsAreConstants(a.x)
             THEN Ret(Result(x, sum.value),
                      a.m)
           ELSE Ret(a.x, a.m)
  IN Finish(ApplyElementwise2(c, x))

FoldAdd(c, x) ==
  LET Finish(a) ==
        LET sum == AddSigned(x.kind, GetScalarConstantValue(a.x.args[1]),
                     GetScalarConstantValue(a.x.args[2]))
        IN IF a.has THEN a.val
           ELSE IF OperandsAreConstants(a.x)
             THEN Ret(Result(x, sum.value),
                      a.m \o (IF sum.overflow
                                THEN <<Say("en", "INTEGER addition overflowed",
                                           x.kind)>>
                                ELSE <<>>))
           ELSE Ret(a.x, a.m)
  IN Finish(ApplyElementwise2(c, x))

FoldSubtract(c, x) ==
  LET Finish(a) ==
        LET difference == SubtractSigned(x.kind,
                            GetScalarConstantValue(a.x.args[1]),
                            GetScalarConstantValue(a.x.args[2]))
        IN IF a.has THEN a.val
           ELSE IF OperandsAreConstants(a.x)
             THEN Ret(Result(x, difference.value),
                      a.m \o (IF difference.overflow
                                THEN <<Say("en",
                                           "INTEGER subtraction overflowed",
                                           x.kind)>>
                                ELSE <<>>))
           ELSE Ret(a.x, a.m)
  IN Finish(ApplyElementwise2(c, x))

FoldMultiply(c, x) ==
  LET Finish(a) ==
        LET product == MultiplySigned(x.kind,
                            GetScalarConstantValue(a.x.args[1]),
                            GetScalarConstantValue(a.x.args[2]))
        IN IF a.has THEN a.val
           ELSE IF OperandsAreConstants(a.x)
             THEN Ret(Result(x, product.value),
                      a.m \o (IF product.overflow
                                THEN <<Say("en",
                                           "INTEGER multiplication overflowed",
                                           x.kind)>>
                                ELSE <<>>))
           ELSE Ret(a.x, a.m)
  IN Finish(ApplyElementwise2(c, x))

\* A division by zero is diagnosed and the Divide node is kept.
FoldDivide_Unfolded(c, x) ==
  LET Finish(a) ==
        LET quotAndRem == DivideSigned(x.kind,
                            GetScalarConstantValue(a.x.args[1]),
                            GetScalarConstantValue(a.x.args[2]))
        IN IF a.has THEN a.val
           ELSE IF OperandsAreConstants(a.x)
             THEN IF quotAndRem.divisionByZero
                    THEN Ret(a.x, a.m \o <<Say("en", "INTEGER division by zero",
                                               x.kind)>>)
                    ELSE Ret(Result(x, quotAndRem.quotient),
                             a.m \o (IF quotAndRem.overflow
                                       THEN <<Say("en",
                                                  "INTEGER division overflowed",
                                                  x.kind)>>
                                       ELSE <<>>))
           ELSE Ret(a.x, a.m)
  IN Finish(ApplyElementwise2(c, x))

FoldDivide(c, x) ==
  LET Finish(a) ==
        LET quotAndRem == DivideSigned(x.kind,
                            GetScalarConstantValue(a.x.args[1]),
                            GetScalarConstantValue(a.x.args[2]))
        IN IF a.has THEN a.val
           ELSE IF OperandsAreConstants(a.x)
             THEN Ret(Result(x, quotAndRem.quotient),
                      a.m \o (IF quotAndRem.divisionByZero
                                THEN <<Say("en", "INTEGER division by zero",
                                           x.kind)>>
                                ELSE <<>>)
                          \o (IF quotAndRem.overflow
                                THEN <<Say("en", "INTEGER division overflowed",
                                           x.kind)>>
                                ELSE <<>>))
           ELSE Ret(a.x, a.m)
  IN Finish(ApplyElementwise2(c, x))

\* std::string::erase(pos) throws std::out_of_range for pos > size(), which a
\* negative length converted to std::size_t always is; nothing catches it.
FoldSetLength(c, x) ==
  LET Finish(a) ==
        LET string == GetScalarConstantValue(a.x.args[1])
            oldLength == Len(GetScalarConstantValue(a.x.args[1]))
            newLength == ToInt64(a.x.args[2])
        IN IF a.has THEN a.val
           ELSE IF OperandsAreConstants(a.x)
             THEN IF newLength < oldLength
                    THEN IF newLength < 0 THEN Die(a.m)
                         ELSE Ret(Result(x, SubSeq(string, 1, newLength)), a.m)
                    ELSE Ret(Result(x, string \o [i \in 1..newLength - oldLength
                                                    |-> 32]),
                             a.m)
           ELSE Ret(a.x, a.m)
  IN Finish(ApplyElementwise2(c, x))

\* A zero base with a negative exponent leaves the operation unfolded.
FoldPower_Unfolded(c, x) ==
  LET Finish(a) ==
        LET power == Power(x.kind, GetScalarConstantValue(a.x.args[1]),
                           GetScalarConstantValue(a.x.args[2]))
        IN IF a.has THEN a.val
           ELSE IF OperandsAreConstants(a.x) /\ x.cat = "Integer"
             THEN IF power.divisionByZero
                    THEN Ret(a.x,
                             a.m \o <<Say("en",
                                          "INTEGER zero to negative power",
                                          x.kind)>>)
                    ELSE Ret(Result(x, power.power), a.m)
           ELSE Ret(a.x, a.m)
  IN Finish(ApplyElementwise2(c, x))

FoldPower(c, x) ==
  LET Finish(a) ==
        LET power == Power(x.kind, GetScalarConstantValue(a.x.args[1]),
                           GetScalarConstantValue(a.x.args[2]))
        IN IF a.has THEN a.val
           ELSE IF OperandsAreConstants(a.x) /\ x.cat = "Integer"
             THEN Ret(Result(x, power.power),
                      a.m \o (IF power.divisionByZero
                                THEN <<Say("en",
                                           "INTEGER zero to negative power",
                                           x.kind)>>
                              ELSE IF power.overflow
                                THEN <<Say("en", "INTEGER power overflowed",
                                           x.kind)>>
                              ELSE IF power.zeroToZero
                                THEN <<Say("en", "INTEGER 0**0 is not defined",
                                           x.kind)>>
                              ELSE <<>>))
           ELSE Ret(a.x, a.m)
  IN Finish(ApplyElementwise2(c, x))

FoldExtremum(c, x) ==
  LET Finish(a) ==
        LET left == GetScalarConstantValue(a.x.args[1])
            right == GetScalarConstantValue(a.x.args[2])
        IN IF a.has THEN a.val
           ELSE IF OperandsAreConstants(a.x)
             THEN IF x.cat = "Integer"
                    THEN IF CompareSigned(left, right) = x.name
                           THEN Ret(Result(x, left), a.m)
                           ELSE Ret(Result(x, right), a.m)
                  ELSE IF x.cat = "Real"
                    THEN IF IsNotANumber(left)
                              \/ (CompareReal(left, right) = "Less")
                                   = (x.name = "Less")
                           THEN Ret(Result(x, left), a.m)
                           ELSE Ret(Result(x, right), a.m)
                  ELSE IF x.name = Compare(left, right)
                    THEN Ret(Result(x, left), a.m)
                  ELSE Ret(Result(x, right), a.m)
           ELSE Ret(a.x, a.m)
  IN Finish(ApplyElementwise2(c, x))

(***************************************************************************)
(* Intrinsic function references.                                          *)
(***************************************************************************)
RECURSIVE ElementalResults(_, _, _, _, _)
RECURSIVE ElementalShape(_, _, _)

\* The shape of the first array argument; bad when a later array argument
\* has another shape.
ElementalShape(args, i, shape) ==
  IF i > Len(args) THEN [bad |-> FALSE, shape |-> shape]
  ELSE IF Len(args[i].shape) > 0
    THEN IF Len(shape) = 0 THEN ElementalShape(args, i + 1, args[i].shape)
         ELSE IF shape # args[i].shape THEN [bad |-> TRUE, shape |-> shape]
         ELSE ElementalShape(args, i + 1, shape)
  ELSE ElementalShape(args, i + 1, shape)

ElementalResults(fptr, kind, args, shape, index) ==
  LET v == [i \in 1..Len(args) |->
              IF Len(args[i].shape) > 0 THEN At(args[i], index)
              ELSE args[i].val[1]]
      nxt == IncrementSubscripts(index, shape)
  IN <<Invoke(fptr, kind, v)>>
     \o (IF nxt.more THEN ElementalResults(fptr, kind, args, shape, nxt.index)
         ELSE <<>>)

\* Arguments that are not conformable are reported by nobody.
FoldElementalIntrinsic_Silent(c, funcRef, fptr, types, m) ==
  LET args == funcRef.args
      sh == ElementalShape(args, 1, <<>>)
  IN IF \A i \in 1..Len(types) :
          IsConstant(args[i]) /\ args[i].cat = types[i][1]
            /\ args[i].kind = types[i][2]
       THEN IF sh.bad
              THEN Ret(funcRef, m)
              ELSE Ret(Constant(funcRef.cat, funcRef.kind,
                         IF TotalElementCount(sh.shape) > 0
                           THEN ElementalResults(fptr, funcRef.kind, args,
                                  sh.shape, InitialSubscripts(sh.shape))
                           ELSE <<>>,
                         sh.shape), m)
       ELSE Ret(funcRef, m)

\* types[i] is the type TA the i-th argument must be a Constant of.
FoldElementalIntrinsic(c, funcRef, fptr, types, m) ==
  LET args == funcRef.args
      sh == ElementalShape(args, 1, <<>>)
  IN IF \A i \in 1..Len(types) :
          IsConstant(args[i]) /\ args[i].cat = types[i][1]
            /\ args[i].kind = types[i][2]
       THEN IF sh.bad
              THEN Ret(funcRef, m \o <<Say("err",
                     "arguments in elemental intrinsic function are not conformable",
                     0)>>)
              ELSE Ret(Constant(funcRef.cat, funcRef.kind,
                         IF TotalElementCount(sh.shape) > 0
                           THEN ElementalResults(fptr, funcRef.kind, args,
                                  sh.shape, InitialSubscripts(sh.shape))
                           ELSE <<>>,
                         sh.shape), m)
       ELSE Ret(funcRef, m)

\* for (arg : args) *expr = FoldOperation(context, std::move(*expr));
FoldArguments(c, funcRef) ==
  [funcRef EXCEPT !.args =
     [i \in 1..Len(funcRef.args) |-> FoldOperation(c, funcRef.args[i]).e]]

\* Replaces argument i by its conversion to the given type, folded.
ConvertArgument(c, f, i, cat, kind) ==
  LET r == Fold(c, ConvertToType(cat, kind, f.e.args[i]))
  IN IF f.die THEN f
     ELSE IF r.die THEN Die(f.m \o r.m)
     ELSE Ret([f.e EXCEPT !.args[i] = r.e], f.m \o r.m)

ConvertBozArgument(c, f, i, cat, kind) ==
  IF ~f.die /\ f.e.args[i].tag = "BOZ" THEN ConvertArgument(c, f, i, cat, kind)
  ELSE f

NarrowToInt4(c, f, i) ==
  IF ~f.die /\ f.e.args[i].cat = "Integer" /\ f.e.args[i].kind # 4
    THEN ConvertArgument(c, f, i, "Integer", 4)
    ELSE f

ShiftFunction(name) ==
  IF name = "ibclr" THEN "IBCLR"
  ELSE IF name = "ibset" THEN "IBSET"
  ELSE IF name = "ibshft" THEN "ISHFT"
  ELSE IF name = "shifta" THEN "SHIFTA"
  ELSE IF name = "shiftr" THEN "SHIFTR"
  ELSE IF name = "shiftl" THEN "SHIFTL"
  ELSE "die"

BitwiseFunction(name) ==
  IF name = "iand" THEN "IAND"
  ELSE IF name = "ior" THEN "IOR"
  ELSE IF name = "ieor" THEN "IEOR"
  ELSE "die"

RECURSIVE ProductOfExtents(_, _)
\* ExtentExpr product{1}; product = product * extent, for every extent.
ProductOfExtents(product, extents) ==
  IF extents = <<>> THEN product
  ELSE ProductOfExtents(
         Binary("Multiply", product,
                ScalarConstant("Integer", 8, Head(extents))),
         Tail(extents))

\* The size branch: funcRef.args is <<array>> or <<array, dim>>.
FoldSize(c, funcRef) ==
  LET T == <<"Integer", funcRef.kind>>
      OneExtent(shape, dim) ==
        IF dim >= 1 /\ dim <= Len(shape)
          THEN IF shape[dim] # Unknown
                 THEN Fold(c, ConvertToType(T[1], T[2],
                             ScalarConstant("Integer", 8, shape[dim])))
                 ELSE Ret(funcRef, <<>>)
          ELSE Ret(funcRef,
                   <<Say("en",
                         "size(array,dim) dimension is out of range for array",
                         0)>>)
      Converted(product) ==
        IF product.die THEN product
        ELSE Ret(ConvertToType(T[1], T[2], product.e), product.m)
      Size(shape) ==
        IF ~shape.has THEN Ret(funcRef, <<>>)
        ELSE IF Len(funcRef.args) > 1
          THEN IF IsInt64(funcRef.args[2])
                 THEN OneExtent(shape.shape, ToInt64(funcRef.args[2]))
                 ELSE Ret(funcRef, <<>>)
        ELSE IF AsConstantExtents(shape.shape).has
          THEN Converted(Fold(c, ProductOfExtents(
                                   ScalarConstant("Integer", 8, 1),
                                   shape.shape)))
        ELSE Ret(funcRef, <<>>)
  IN Size(GetShape(funcRef.args[1]))

FoldIntegerFunctionRef(c, funcRef0) ==
  LET funcRef == FoldArguments(c, funcRef0)
      name == funcRef.name
      T == <<"Integer", funcRef.kind>>
      Int4 == <<"Integer", 4>>
      boz == ConvertBozArgument(c,
               ConvertBozArgument(c, Ret(funcRef, <<>>), 1, T[1], T[2]),
               2, T[1], T[2])
      narrowed == NarrowToInt4(c, Ret(funcRef, <<>>), 2)
  IN IF funcRef.proc # "intrinsic" THEN Ret(funcRef, <<>>)
     ELSE IF name \in {"iand", "ior", "ieor"}
       THEN IF boz.die \/ BitwiseFunction(name) = "die" THEN Die(boz.m)
            ELSE FoldElementalIntrinsic(c, boz.e, BitwiseFunction(name),
                                        <<T, T>>, boz.m)
     ELSE IF name \in {"ibclr", "ibset", "ishft", "shifta", "shiftr", "shiftl"}
       THEN IF narrowed.die \/ ShiftFunction(name) = "die"
              THEN Die(narrowed.m)
            ELSE FoldElementalIntrinsic(c, narrowed.e, ShiftFunction(name),
                                        <<T, Int4>>, narrowed.m)
     ELSE IF name = "size" THEN FoldSize(c, funcRef)
     ELSE Ret(funcRef, <<>>)

HostUnary ==
  {"acos", "acosh", "asin", "asinh", "atanh", "bessel_j0", "bessel_j1",
   "bessel_y0", "bessel_y1", "cos", "cosh", "erf", "erfc", "erfc_scaled",
   "exp", "gamma", "log", "log10", "log_gamma", "sin", "sinh", "sqrt", "tan",
   "tanh"}

HostBinary == {"atan", "atan2", "hypot", "mod"}

\* REAL values are modelled on the grid of the integers, whose spacing is 1.
EPSILON(kind) == 1

CannotFold(text, kind) == Say("en", text, kind)

FoldRealFunctionRef(c, funcRef0) ==
  LET funcRef == FoldArguments(c, funcRef0)
      name == funcRef.name
      T == <<"Real", funcRef.kind>>
      unary == name \in HostUnary \/ (name = "atan" /\ Len(funcRef.args) = 1)
      \* diagnostics of the first chain when it does not return
      m1 == IF unary
              THEN <<CannotFold("(real) cannot be folded on host",
                                funcRef.kind)>>
              ELSE <<>>
      localName == IF name = "atan2" THEN "atan" ELSE name
  IN IF funcRef.proc # "intrinsic" THEN Ret(funcRef, <<>>)
     ELSE IF unary /\ Len(funcRef.args) # 1 THEN Die(<<>>)
     ELSE IF unary /\ name \in c.host
       THEN FoldElementalIntrinsic(c, funcRef, "HOST", <<T>>, <<>>)
     ELSE IF name \in HostBinary
       THEN IF Len(funcRef.args) # 2 THEN Die(m1)
            ELSE IF localName \in c.host
              THEN FoldElementalIntrinsic(c, funcRef, "HOST", <<T, T>>, m1)
            ELSE Ret(funcRef,
                     m1 \o <<CannotFold(
                               "(real, real) cannot be folded on host",
                               funcRef.kind)>>)
     ELSE IF name = "epsilon"
       THEN Ret(ScalarConstant("Real", funcRef.kind, EPSILON(funcRef.kind)),
                m1)
     ELSE Ret(funcRef, m1)

CompareFunction(name) ==
  IF name = "bge" THEN "BGE"
  ELSE IF name = "bgt" THEN "BGT"
  ELSE IF name = "ble" THEN "BLE"
  ELSE IF name = "blt" THEN "BLT"
  ELSE "die"

\* An INTEGER argument is converted to the largest kind; a BOZ argument
\* becomes a Constant of the largest kind.
WidenArgument(c, f, i) ==
  IF f.die THEN f
  ELSE IF f.e.args[i].cat = "Integer"
    THEN ConvertArgument(c, f, i, "Integer", 16)
  ELSE IF f.e.args[i].tag = "BOZ"
    THEN Ret([f.e EXCEPT !.args[i] =
                ScalarConstant("Integer", 16, f.e.args[i].val[1])], f.m)
  ELSE f

FoldLogicalFunctionRef(c, funcRef0) ==
  LET funcRef == FoldArguments(c, funcRef0)
      name == funcRef.name
      LargestInt == <<"Integer", 16>>
      widened == WidenArgument(c, WidenArgument(c, Ret(funcRef, <<>>), 1), 2)
  IN IF funcRef.proc # "intrinsic" THEN Ret(funcRef, <<>>)
     ELSE IF name \in {"bge", "bgt", "ble", "blt"}
       THEN IF widened.die \/ CompareFunction(name) = "die"
              THEN Die(widened.m)
            ELSE FoldElementalIntrinsic(c, widened.e, CompareFunction(name),
                                        <<LargestInt, LargestInt>>, widened.m)
     ELSE Ret(funcRef, <<>>)

FoldFunctionRef(c, funcRef) ==
  IF funcRef.cat = "Integer" THEN FoldIntegerFunctionRef(c, funcRef)
  ELSE IF funcRef.cat = "Real" THEN FoldRealFunctionRef(c, funcRef)
  ELSE IF funcRef.cat = "Logical" THEN FoldLogicalFunctionRef(c, funcRef)
  ELSE Ret(funcRef, <<>>)

RECURSIVE FoldComponents(_, _, _)
\* for (auto &&[symbol, value] : structure) result.Add(*symbol, Fold(value));
FoldComponents(c, values, acc) ==
  LET Add(r) ==
        IF r.die THEN [acc EXCEPT !.die = TRUE, !.m = acc.m \o r.m]
        ELSE FoldComponents(c, Tail(values),
               [acc EXCEPT !.values = acc.values \o <<r.e>>,
                           !.m = acc.m \o r.m])
  IN IF values = <<>> THEN acc ELSE Add(Fold(c, Head(values)))

\* The folded components are wrapped in a Constant<SomeDerived>, whose one
\* element is the structure constructor kept in args.
FoldStructureConstructor(c, structure) ==
  LET Wrap(folded) ==
        IF folded.die THEN Die(folded.m)
        ELSE Ret(Expr("Constant", "Derived", 0, structure.name, "", <<>>,
                      <<>>, folded.values),
                 folded.m)
  IN Wrap(FoldComponents(c, structure.args,
            [values |-> <<>>, m |-> <<>>, die |-> FALSE]))

(***************************************************************************)
(* ExpressionBase<T>::Rewrite: dispatch on the alternative held.           *)
(***************************************************************************)
Fold(c, e) ==
  CASE e.tag = "Parentheses" -> FoldParentheses(c, e)
    [] e.tag = "Negate" -> FoldNegate(c, e)
    [] e.tag = "Convert" -> FoldConvert(c, e)
    [] e.tag = "Add" -> FoldAdd(c, e)
    [] e.tag = "Subtract" -> FoldSubtract(c, e)
    [] e.tag = "Multiply" -> FoldMultiply(c, e)
    [] e.tag = "Divide" -> FoldDivide(c, e)
    [] e.tag = "Power" -> FoldPower(c, e)
    [] e.tag = "Extremum" -> FoldExtremum(c, e)
    [] e.tag = "SetLength" -> FoldSetLength(c, e)
    [] e.tag = "ImpliedDoIndex" -> FoldImpliedDoIndex(c, e)
    [] e.tag = "ArrayConstructor" -> FoldArray(c, e)
    [] e.tag = "StructureConstructor" -> FoldStructureConstructor(c, e)
    [] e.tag = "FunctionRef" -> FoldFunctionRef(c, e)
    [] OTHER -> FoldOperation(c, e)

(***************************************************************************)
(* Inputs: well-typed expressions and contexts.                            *)
(***************************************************************************)
Int1(v) == ScalarConstant("Integer", 1, v)
Int4(v) == ScalarConstant("Integer", 4, v)
Int8(v) == ScalarConstant("Integer", 8, v)
Real4(v) == ScalarConstant("Real", 4, v)

IntValues == {-128, -1, 0, 1, 2, 100, 127}
Int4Values == {-2147483647 - 1, -2000000000, -7, 0, 7, 2000000000, 2147483647}

x1 == Designator("Integer", 1, "x", <<>>)
a1 == Designator("Integer", 1, "a", <<2>>)
f1 == FunctionRef("Integer", 1, "f", "user", <<>>, <<x1>>)
c1 == CoarrayRef("Integer", 1, "c")

\* Element k of a constant array: 1,2,3..  10,20,30..  121,122,123..
Element(pattern, k) ==
  IF pattern = "unit" THEN k
  ELSE IF pattern = "tens" THEN 10 * k
  ELSE 120 + k

Patterns == {"unit", "tens", "big"}

Shapes ==
  {<<n>> : n \in 0..MaxElems} \cup {<<1, 2>>, <<2, 1>>, <<2, 2>>}

ArrayConstant(shape, pattern) ==
  Constant("Integer", 1,
           [k \in 1..Product(shape) |-> Element(pattern, k)], shape)

ConstantArrays == {ArrayConstant(s, p) : s \in Shapes, p \in Patterns}

ScalarConstants == {Int1(v) : v \in IntValues}

\* Flat array constructors that do not fold to a constant, and wrapped arrays.
SymbolicArrays ==
  {ArrayConstructor("Integer", 1, <<x1, Int1(1)>>),
   ArrayConstructor("Integer", 1, <<x1, Int1(1), Int1(2)>>),
   ArrayConstructor("Integer", 1, <<Binary("Add", Int1(1), Int1(2)), x1>>),
   Unary("Parentheses", ArrayConstant(<<2>>, "unit")),
   a1}

Arrays == ConstantArrays \cup SymbolicArrays

Scalars ==
  {Int1(1), Int1(100), x1, f1, c1, Binary("Add", x1, f1),
   Binary("Add", Int1(1), Int1(2))}

ArithmeticInputs ==
  {Binary(op, Int1(a), Int1(b)) :
     op \in {"Add", "Subtract", "Multiply", "Divide"},
     a \in IntValues, b \in IntValues}
  \cup {Binary(op, Int4(a), Int4(b)) :
     op \in {"Add", "Divide"}, a \in Int4Values, b \in Int4Values}
  \cup {Unary("Negate", Int1(a)) : a \in IntValues}
  \cup {Binary("Add", Int1(a), Unary("Negate", Int1(a))) : a \in IntValues}

\* Flat array constructors with an array-valued element: [([1,2]),3] and
\* [5,([1,2])].  The parenthesised constant array does not fold to a
\* Constant, so the constructors survive Fold as constructors of extent 3
\* with two values.
p12 == Unary("Parentheses", ArrayConstant(<<2>>, "unit"))

NestedArrays ==
  {ArrayConstructor("Integer", 1, <<p12, Int1(3)>>),
   ArrayConstructor("Integer", 1, <<Int1(5), p12>>)}

LiftInputs ==
  {Binary(op, l, r) : op \in {"Add", "Divide"}, l \in Arrays, r \in Arrays}
  \cup {Binary("Add", l, r) :
          l \in NestedArrays \cup {ArrayConstant(<<2>>, "tens")},
          r \in NestedArrays \cup {ArrayConstant(<<3>>, "tens"), Int1(1)}}
  \cup {Unary("Negate", l) : l \in NestedArrays}
  \cup {Binary("Add", l, r) : l \in Arrays, r \in Scalars}
  \cup {Binary("Add", l, r) : l \in Scalars, r \in Arrays}
  \cup {Unary("Negate", l) : l \in Arrays}

ParenthesesInputs ==
  {Unary("Parentheses", e) :
     e \in ScalarConstants \cup ConstantArrays \cup SymbolicArrays
           \cup Scalars
           \cup {Real4(v) : v \in IntValues}
           \cup {Unary("Parentheses", Int1(v)) : v \in IntValues}
           \cup {Binary("Add", Int1(a), Int1(b)) :
                   a \in {1, 100}, b \in {2, 100}}}

\* Array constructors with implied DOs.
Bounds == -1..MaxBound
Strides == {-2, -1, 0, 1, 2}

i8 == ImpliedDoIndex("i")
j8 == ImpliedDoIndex("j")
k8 == ImpliedDoIndex("k")
n8 == Designator("Integer", 8, "n", <<>>)

Bodies ==
  {<<i8>>,
   <<Binary("Multiply", i8, i8)>>,
   <<i8, Int8(7)>>,
   <<Binary("Add", i8, k8)>>,
   <<ImpliedDo("j", Int8(1), i8, Int8(1), <<Binary("Add",
       Binary("Multiply", Int8(10), i8), j8)>>)>>,
   <<n8, i8>>}

ImpliedDoInputs ==
  {ArrayConstructor("Integer", 8,
     <<ImpliedDo("i", Int8(l), Int8(u), Int8(s), b)>>) :
     l \in Bounds, u \in Bounds, s \in Strides, b \in Bodies}
  \cup {ArrayConstructor("Integer", 8,
     <<Int8(0), ImpliedDo("i", Int8(l), n8, Int8(1), <<i8>>)>>) :
     l \in Bounds}
  \cup {ArrayConstructor("Integer", 1,
     <<ImpliedDo("i", Int8(1), Int8(u), Int8(1),
         <<Convert("Integer", 1, Binary("Multiply", i8, i8))>>)>>) :
     u \in Bounds \cup {5, 12}}

\* Function references.
ShiftNames == {"ibclr", "ibset", "ishft", "shifta", "shiftr", "shiftl"}
BitwiseNames == {"iand", "ior", "ieor"}
CompareNames == {"bge", "bgt", "ble", "blt"}

IntegerArguments ==
  {Int1(-128), Int1(-1), Int1(5), x1, ArrayConstant(<<2>>, "unit"),
   BOZLiteralConstant(6), BOZLiteralConstant(255)}

ShiftCounts ==
  {Int4(0), Int4(1), Int4(9), Int4(-1), Int1(2), x1,
   Constant("Integer", 4, <<1, 2>>, <<2>>),
   Constant("Integer", 4, <<1, 2, 3>>, <<3>>)}

\* Arguments of size(): arrays whose shape is inferable, DIM= values.
SizeArrays ==
  {ArrayConstant(<<2, 2>>, "unit"), ArrayConstant(<<MaxElems>>, "tens"), a1,
   Designator("Integer", 1, "b", <<3, 4>>),
   Designator("Integer", 1, "d", <<3, Unknown>>),
   ArrayConstructor("Integer", 1, <<x1, Int1(1), Int1(2)>>)}

SizeDims == {Int4(k) : k \in -1..MaxBound} \cup {x1}

SizeInputs ==
  {FunctionRef("Integer", K, "size", "intrinsic", <<>>, <<a, d>>) :
     K \in {4, 8}, a \in SizeArrays, d \in SizeDims}
  \cup {FunctionRef("Integer", K, "size", "intrinsic", <<>>, <<a>>) :
     K \in {4, 8}, a \in SizeArrays}

\* A reference to an elemental intrinsic has the shape of its first array
\* argument.
ElementalRef(cat, kind, name, args) ==
  LET arrays == {a \in 1..Len(args) : Len(args[a].shape) > 0}
      shape == IF arrays = {} THEN <<>>
               ELSE args[CHOOSE a \in arrays : \A b \in arrays : a <= b].shape
  IN FunctionRef(cat, kind, name, "intrinsic", shape, args)

\* Constant arguments of every shape class: scalar, zero size, rank 1 and
\* rank 2, among them shapes of equal size and different rank.
ElementalArguments ==
  {Int1(5), ArrayConstant(<<0>>, "unit"), ArrayConstant(<<2>>, "tens"),
   ArrayConstant(<<1, 2>>, "unit"), ArrayConstant(<<2, 2>>, "unit"),
   ArrayConstant(<<2, 2>>, "big")}

FunctionInputs ==
  {ElementalRef("Integer", 1, n, <<i, p>>) :
     n \in ShiftNames,
     i \in IntegerArguments \ {BOZLiteralConstant(6), BOZLiteralConstant(255)},
     p \in ShiftCounts}
  \cup {ElementalRef("Integer", 1, n, <<i, j>>) :
     n \in BitwiseNames, i \in IntegerArguments, j \in IntegerArguments}
  \cup {ElementalRef("Logical", 1, n, <<i, j>>) :
     n \in CompareNames, i \in IntegerArguments, j \in IntegerArguments}
  \cup {ElementalRef("Real", 4, n, args) :
     n \in {"sqrt", "acos", "atan"},
     args \in {<<Real4(4)>>, <<Designator("Real", 4, "y", <<>>)>>,
               <<Constant("Real", 4, <<4, 9>>, <<2>>)>>}}
  \cup {FunctionRef("Real", 4, "epsilon", "intrinsic", <<>>, args) :
     args \in {<<Real4(4)>>, <<Designator("Real", 4, "y", <<>>)>>,
               <<Constant("Real", 4, <<4, 9>>, <<2>>)>>}}
  \cup {ElementalRef("Real", 4, n, args) :
     n \in {"atan", "atan2", "hypot", "mod"},
     args \in {<<Real4(4), Real4(2)>>,
               <<Real4(4), Designator("Real", 4, "y", <<>>)>>}}
  \cup {ElementalRef("Integer", 1, n, <<i, j>>) :
     n \in {"iand", "ior"}, i \in ElementalArguments,
     j \in ElementalArguments}
  \cup {ElementalRef("Logical", 1, "blt", <<i, j>>) :
     i \in ElementalArguments, j \in ElementalArguments}
  \cup SizeInputs
  \cup {f1}

\* MAX and MIN of two operands.
RealValues == {NotANumber, MinusZero, 0, 1, 4}
Strings == {<<>>, <<97>>, <<97, 98>>, <<98>>, <<97, 32>>, <<200, 97>>}
Char1(v) == ScalarConstant("Character", 1, v)

ExtremumInputs ==
  {Extremum(o, Real4(a), Real4(b)) :
     o \in {"Greater", "Less"}, a \in RealValues, b \in RealValues}
  \cup {Extremum(o, Int1(a), Int1(b)) :
     o \in {"Greater", "Less"}, a \in IntValues, b \in IntValues}
  \cup {Extremum(o, Char1(a), Char1(b)) :
     o \in {"Greater", "Less"}, a \in Strings, b \in Strings}
  \cup {Extremum(o, a, b) :
     o \in {"Greater", "Less"},
     a \in {x1, Int1(2), ArrayConstant(<<2>>, "tens")},
     b \in {x1, ArrayConstant(<<2>>, "unit")}}

\* Powers: bases and exponents around zero, one and the INTEGER(1) range.
Bases == {-128, -11, -2, -1, 0, 1, 2, 3, 11, 127}
Exponents == -3..MaxBound + 5

PowerInputs ==
  {Binary("Power", Int1(b), Int1(e)) : b \in Bases, e \in Exponents}
  \cup {Binary("Power", Int8(b), Int8(e)) :
          b \in {-2, 0, 3}, e \in {-1, 0, 5}}
  \cup {Binary("Power", Real4(4), Real4(2)),
         Binary("Power", x1, Int1(2)), Binary("Power", Int1(2), x1),
         Binary("Power", ArrayConstant(<<2>>, "unit"), Int1(2)),
         Binary("Power", ArrayConstant(<<2>>, "unit"),
                ArrayConstant(<<2>>, "unit"))}

\* Changes of length: strings and requested lengths.
s1 == Designator("Character", 1, "s", <<>>)

SetLengthInputs ==
  {Binary("SetLength", Char1(v), Int8(n)) :
     v \in Strings, n \in -1..MaxBound + 1}
  \cup {Binary("SetLength", s1, Int8(2)),
         Binary("SetLength", Char1(<<97>>), n8)}

\* Conversions between character kinds.
CharacterKinds == {1, 2, 4}
CodePoints == {0, 32, 97, 127, 128, 200}
ConvertedStrings ==
  Strings \cup {<<p>> : p \in CodePoints}
  \cup {<<p, q>> : p \in CodePoints, q \in CodePoints}

CharacterConvertInputs ==
  {Convert("Character", to, ScalarConstant("Character", from, v)) :
     to \in CharacterKinds, from \in CharacterKinds, v \in ConvertedStrings}
  \cup {Convert("Character", 2, s1)}

\* Operations whose two operands are operations that raise diagnostics.
NestedOperands ==
  {Binary(op, Int1(a), Int1(b)) :
     op \in {"Add", "Multiply", "Divide"},
     a \in {1, 100, -128}, b \in {-1, 0, 100}}

NestedInputs ==
  {Binary(op, l, r) :
     op \in {"Add", "Multiply", "Divide"},
     l \in NestedOperands, r \in NestedOperands}

\* a + (-a) in INTEGER(4) and INTEGER(8).
InverseInputs ==
  {Binary("Add", Int4(a), Unary("Negate", Int4(a))) : a \in Int4Values}
  \cup {Binary("Add", Int8(a), Unary("Negate", Int8(a))) : a \in IntValues}

\* Structure constructors of a type t: constant components, components
\* that fold to constants, and components that stay variable.
StructureInputs ==
  {StructureConstructor("t", values) :
     values \in {<<>>, <<Int1(1), Int1(2)>>, <<Binary("Add", Int1(1), Int1(2))>>,
                 <<x1>>, <<Binary("Add", Int1(1), Int1(2)), x1>>,
                 <<Binary("Add", Int1(100), Int1(100)), k8>>,
                 <<ArrayConstant(<<2>>, "unit"), a1>>}}

Inputs ==
  InverseInputs \cup NestedInputs \cup CharacterConvertInputs \cup SetLengthInputs \cup PowerInputs \cup ExtremumInputs \cup ArithmeticInputs \cup LiftInputs \cup ParenthesesInputs
  \cup ImpliedDoInputs \cup FunctionInputs
  \cup ScalarConstants \cup Arrays \cup {x1, c1, k8, i8}
  \cup StructureInputs

HostLibrary == HostUnary \cup {"atan", "hypot", "mod"}

Contexts ==
  {[ido |-> d, host |-> h] :
     d \in {EmptyIdo, [n \in {"k"} |-> 2]}, h \in {{}, HostLibrary}}

(***************************************************************************)
(* The caller: folds an expression, then folds the result once more.       *)
(***************************************************************************)
\* No ArrayConstructorFolder and no FIRBuilder are under observation.
NoFolder == [context |-> NoContext, frames |-> <<>>, ok |-> TRUE]
NoBuilder == [cursor |-> "", preds |-> <<>>, stmts |-> <<>>]

Init ==
  /\ pc = "start"
  /\ ctx \in Contexts
  /\ expr \in Inputs
  /\ result = expr
  /\ first = expr
  /\ messages = <<>>
  /\ dead = FALSE
  /\ folder = NoFolder
  /\ fir = NoBuilder

\* result = Fold(context, std::move(expr))
CallFold ==
  LET Return(r) ==
        /\ result' = r.e
        /\ first' = r.e
        /\ messages' = messages \o r.m
        /\ dead' = r.die
        /\ pc' = IF r.die THEN "aborted" ELSE "folded"
  IN /\ pc = "start"
     /\ Return(Fold(ctx, expr))
     /\ UNCHANGED <<ctx, expr, folder, fir>>

\* result = Fold(context, std::move(result))
CallFoldAgain ==
  LET Return(r) ==
        /\ result' = r.e
        /\ messages' = messages \o r.m
        /\ dead' = r.die
        /\ pc' = IF r.die THEN "aborted" ELSE "refolded"
  IN /\ pc = "folded"
     /\ Return(Fold(ctx, result))
     /\ UNCHANGED <<ctx, expr, first, folder, fir>>

Next == CallFold \/ CallFoldAgain

Spec == Init /\ [][Next]_vars

(***************************************************************************)
(* ArrayConstructorFolder, step by step (fold.cc:838-931): the folder's    *)
(* own copy of the context, and one frame per active FoldArray(values)     *)
(* loop - the constructor's values at the bottom, the body of each         *)
(* implied DO being unrolled above it.  The loop index lives in the        *)
(* folder's implied-DO map (std::int64_t &j).                              *)
(***************************************************************************)
EndImpliedDo(c, name) ==
  [c EXCEPT !.ido = [n \in DOMAIN c.ido \ {name} |-> c.ido[n]]]

ValuesFrame(values) ==
  [name |-> "", values |-> values, k |-> 1, end |-> 0, step |-> 0,
   result |-> TRUE]

ImpliedDoFrame(iDo, end, step) ==
  [name |-> iDo.name, values |-> IdoValues(iDo), k |-> 1, end |-> end,
   step |-> step, result |-> TRUE]

Top(frames) == frames[Len(frames)]

Pop(frames) == SubSeq(frames, 1, Len(frames) - 1)

SetTop(frames, frame) == [frames EXCEPT ![Len(frames)] = frame]

\* FoldArray(values) of the top frame returns ok: to the caller of
\* FoldArray(array) from the bottom frame, into the loop body otherwise.
ReturnFromValues(f, ok) ==
  IF Len(f.frames) = 1
    THEN /\ folder' = [f EXCEPT !.frames = <<>>, !.ok = ok]
         /\ pc' = "returned"
    ELSE /\ folder' = [f EXCEPT !.frames =
                         SetTop(f.frames,
                                [Top(f.frames) EXCEPT
                                   !.result = @ /\ ok])]
         /\ pc' = "advance"

\* FoldArray(value) of the top frame's current value returns ok.
ReturnFromValue(f, ok) ==
  IF ok
    THEN /\ folder' = [f EXCEPT !.frames =
                         SetTop(f.frames,
                                [Top(f.frames) EXCEPT !.k = @ + 1])]
         /\ pc' = "values"
    ELSE ReturnFromValues(f, FALSE)

Abort ==
  /\ pc' = "aborted"
  /\ dead' = TRUE
  /\ UNCHANGED folder

\* ArrayConstructorFolder<T> folder{context}; folder.FoldArray(array)
Construct ==
  /\ pc = "construct"
  /\ folder' = [context |-> ctx, frames |-> <<ValuesFrame(expr.args)>>,
                ok |-> TRUE]
  /\ pc' = "values"
  /\ UNCHANGED <<ctx, expr, result, messages, dead, first, fir>>

\* FoldArray(const CopyableIndirection<Expr<T>> &)
FoldArrayElement ==
  LET frame == Top(folder.frames)
      Collect(folded) ==
        IF folded.die THEN Abort
        ELSE /\ ReturnFromValue(folder, IsConstant(folded.e))
             /\ UNCHANGED dead
  IN /\ pc = "values"
     /\ frame.k <= Len(frame.values)
     /\ frame.values[frame.k].tag # "ImpliedDo"
     /\ Collect(Fold(folder.context, frame.values[frame.k]))
     /\ UNCHANGED <<ctx, expr, result, messages, first, fir>>

\* FoldArray(const ImpliedDo<T> &) up to the loop.
EnterImpliedDo ==
  LET frame == Top(folder.frames)
      iDo == frame.values[frame.k]
      Loop(lower, upper, stride) ==
        IF lower.die \/ upper.die \/ stride.die THEN Abort
        ELSE IF IsInt64(lower.e) /\ IsInt64(upper.e) /\ IsInt64(stride.e)
                  /\ ToInt64(stride.e) # 0
          THEN /\ folder' =
                    [folder EXCEPT
                       !.context = StartImpliedDo(@, iDo.name,
                                                  ToInt64(lower.e)),
                       !.frames = Append(@, ImpliedDoFrame(iDo,
                                              ToInt64(upper.e),
                                              ToInt64(stride.e)))]
               /\ pc' = "test"
               /\ UNCHANGED dead
        ELSE /\ ReturnFromValue(folder, FALSE)
             /\ UNCHANGED dead
  IN /\ pc = "values"
     /\ frame.k <= Len(frame.values)
     /\ iDo.tag = "ImpliedDo"
     /\ Loop(Fold(folder.context, IdoLower(iDo)),
             Fold(folder.context, IdoUpper(iDo)),
             Fold(folder.context, IdoStride(iDo)))
     /\ UNCHANGED <<ctx, expr, result, messages, first, fir>>

\* for (const auto &x : xs) has run to its end: return true.
EndOfValues ==
  /\ pc = "values"
  /\ Top(folder.frames).k > Len(Top(folder.frames).values)
  /\ ReturnFromValues(folder, TRUE)
  /\ UNCHANGED <<ctx, expr, result, messages, dead, first, fir>>

InRangeOfLoop(frame, j) ==
  IF frame.step > 0 THEN j <= frame.end ELSE j >= frame.end

\* The loop test holds: result &= FoldArray(iDo.values()) begins.
EnterBody ==
  LET frame == Top(folder.frames)
  IN /\ pc = "test"
     /\ InRangeOfLoop(frame, folder.context.ido[frame.name])
     /\ folder' = [folder EXCEPT !.frames =
                     SetTop(@, [frame EXCEPT !.k = 1])]
     /\ pc' = "values"
     /\ UNCHANGED <<ctx, expr, result, messages, dead, first, fir>>

\* The frame is popped and the name stays in the map.
LeaveImpliedDo_KeepBinding ==
  LET frame == Top(folder.frames)
  IN /\ pc = "test"
     /\ ~InRangeOfLoop(frame, folder.context.ido[frame.name])
     /\ ReturnFromValue([folder EXCEPT !.frames = Pop(@)], frame.result)
     /\ UNCHANGED <<ctx, expr, result, messages, dead, first, fir>>

\* The loop test fails: context_.EndImpliedDo(iDo.name()); return result.
LeaveImpliedDo ==
  LET frame == Top(folder.frames)
  IN /\ pc = "test"
     /\ ~InRangeOfLoop(frame, folder.context.ido[frame.name])
     /\ ReturnFromValue([folder EXCEPT
                           !.context = EndImpliedDo(@, frame.name),
                           !.frames = Pop(@)],
                        frame.result)
     /\ UNCHANGED <<ctx, expr, result, messages, dead, first, fir>>

IndexInRange(j) == j >= -IndexMax - 1 /\ j <= IndexMax

WrapIndex(j) ==
  ((j + IndexMax + 1) % (2 * (IndexMax + 1))) - IndexMax - 1

\* j += *step, the sum being representable.
Advance ==
  LET frame == Top(folder.frames)
      j == folder.context.ido[frame.name]
  IN /\ pc = "advance"
     /\ IndexInRange(j + frame.step)
     /\ folder' = [folder EXCEPT !.context.ido[frame.name] = j + frame.step]
     /\ pc' = "test"
     /\ UNCHANGED <<ctx, expr, result, messages, dead, first, fir>>

\* j += *step overflows, which is undefined: the index wraps around, or the
\* addition traps.
AdvanceOverflows ==
  LET frame == Top(folder.frames)
      j == folder.context.ido[frame.name]
  IN /\ pc = "advance"
     /\ ~IndexInRange(j + frame.step)
     /\ \/ /\ folder' = [folder EXCEPT
                           !.context.ido[frame.name] = WrapIndex(j + frame.step)]
           /\ pc' = "test"
           /\ UNCHANGED dead
        \/ Abort
     /\ UNCHANGED <<ctx, expr, result, messages, first, fir>>

\* Array constructors for the step-by-step folder: implied DOs whose bounds
\* reach both ends of the index range.
FolderBounds == {-IndexMax - 1, -IndexMax, 0, 1, 2, IndexMax - 1, IndexMax}

FolderBodies ==
  {<<i8>>, <<n8, i8>>, <<i8, k8>>,
   <<ImpliedDo("j", Int8(1), i8, Int8(1), <<Binary("Add", i8, j8)>>)>>,
   <<ImpliedDo("j", Int8(1), Int8(2), Int8(0), <<j8>>), i8>>}

FolderInputs ==
  {ArrayConstructor("Integer", 8,
     <<ImpliedDo("i", Int8(l), Int8(u), Int8(s), b)>>) :
     l \in FolderBounds, u \in FolderBounds, s \in Strides, b \in FolderBodies}
  \cup {ArrayConstructor("Integer", 8,
     <<Int8(0), ImpliedDo("i", Int8(l), n8, Int8(1), <<i8>>), Int8(1)>>) :
     l \in FolderBounds}
  \cup {ArrayConstructor("Integer", 8,
     <<Int8(0), ImpliedDo("i", Int8(1), Int8(2), Int8(1), <<i8>>), v>>) :
     v \in {Int8(1), n8}}

InitFolder ==
  /\ pc = "construct"
  /\ ctx \in {[ido |-> d, host |-> {}] : d \in {EmptyIdo, [n \in {"k"} |-> 2]}}
  /\ expr \in FolderInputs
  /\ result = expr
  /\ first = expr
  /\ messages = <<>>
  /\ dead = FALSE
  /\ folder = NoFolder
  /\ fir = NoBuilder

NextFolder ==
  \/ Construct
  \/ FoldArrayElement
  \/ EnterImpliedDo
  \/ EndOfValues
  \/ EnterBody
  \/ LeaveImpliedDo
  \/ Advance
  \/ AdvanceOverflows

SpecFolder == InitFolder /\ [][NextFolder]_vars

\* The folder's steps are taken as long as one is enabled.
SpecFolderFair == SpecFolder /\ WF_vars(NextFolder)

(***************************************************************************)
(* The FIR builder (FIR/builder.h).                                        *)
(*   fir.cursor  cursorBlock_, NullBlock for nullptr                       *)
(*   fir.preds   preds_ of every basic block                               *)
(*   fir.stmts   the statements created, in order: at is the block the     *)
(*               statement was created in, op its kind, succ the successor *)
(*               blocks the statement holds                                *)
(***************************************************************************)
Blocks == {"b1", "b2"}
NullBlock == ""

\* Successor lists of the switch statements and of the indirect branch.
TargetLists ==
  {<<a>> : a \in Blocks} \cup {<<a, b>> : a \in Blocks, b \in Blocks}

GetInsertionPoint(b) == b.cursor

\* Statement::Create(GetInsertionPoint(), s)
Create(b, s) ==
  [b EXCEPT !.stmts =
     Append(@, [at |-> GetInsertionPoint(b), op |-> s.op, succ |-> s.succ])]

\* block->addPred(bb)
addPred(b, block, bb) == [b EXCEPT !.preds[block] = @ \cup {bb}]

RECURSIVE AddPreds(_, _)
\* for (auto *block : s.succ_blocks()) block->addPred(GetInsertionPoint());
AddPreds(b, succ_blocks) ==
  IF succ_blocks = <<>> THEN b
  ELSE AddPreds(addPred(b, Head(succ_blocks), GetInsertionPoint(b)),
                Tail(succ_blocks))

\* CHECK(GetInsertionPoint()) fails.
CheckFails ==
  /\ pc' = "aborted"
  /\ dead' = TRUE
  /\ UNCHANGED fir

Insert(s) ==
  /\ IF GetInsertionPoint(fir) = NullBlock THEN CheckFails
     ELSE fir' = Create(fir, s) /\ UNCHANGED <<pc, dead>>
  /\ UNCHANGED <<ctx, expr, result, messages, first, folder>>

\* succ_blocks is what s.succ_blocks() returns once s has been forwarded to
\* Insert.
InsertTerminator(s, succ_blocks) ==
  /\ IF GetInsertionPoint(fir) = NullBlock THEN CheckFails
     ELSE fir' = AddPreds(Create(fir, s), succ_blocks)
          /\ UNCHANGED <<pc, dead>>
  /\ UNCHANGED <<ctx, expr, result, messages, first, folder>>

\* The successors read from a statement after it has been moved from: a
\* statement that keeps them in pointer members still has them, one that
\* keeps them in a std::vector has them if the statement was copied and has
\* none if it was moved.
MovedFrom(s) ==
  IF s.op \in {"Switch", "IndirectBranch"} THEN {s.succ, <<>>} ELSE {s.succ}

Building == pc = "building" /\ Len(fir.stmts) < MaxStatements

SetInsertionPoint ==
  /\ pc = "building"
  /\ \E bb \in Blocks : fir' = [fir EXCEPT !.cursor = bb]
  /\ UNCHANGED <<pc, ctx, expr, result, messages, dead, first, folder>>

ClearInsertionPoint ==
  /\ pc = "building"
  /\ fir' = [fir EXCEPT !.cursor = NullBlock]
  /\ UNCHANGED <<pc, ctx, expr, result, messages, dead, first, folder>>

\* CreateExpr, and likewise every Create* that calls Insert.
CreateExpr ==
  /\ Building
  /\ Insert([op |-> "ApplyExpr", succ |-> <<>>])

CreateBranch ==
  /\ Building
  /\ \E block \in Blocks :
       LET s == [op |-> "Branch", succ |-> <<block>>]
       IN \E seen \in MovedFrom(s) : InsertTerminator(s, seen)

CreateConditionalBranch ==
  /\ Building
  /\ \E trueBlock \in Blocks, falseBlock \in Blocks :
       LET s == [op |-> "Branch", succ |-> <<trueBlock, falseBlock>>]
       IN \E seen \in MovedFrom(s) : InsertTerminator(s, seen)

\* CreateSwitch, CreateSwitchCase, CreateSwitchType and CreateSwitchRank.
CreateSwitch ==
  /\ Building
  /\ \E pairs \in TargetLists :
       LET s == [op |-> "Switch", succ |-> pairs]
       IN \E seen \in MovedFrom(s) : InsertTerminator(s, seen)

CreateIndirectBr ==
  /\ Building
  /\ \E p \in TargetLists :
       LET s == [op |-> "IndirectBranch", succ |-> p]
       IN \E seen \in MovedFrom(s) : InsertTerminator(s, seen)

CreateReturn ==
  /\ Building
  /\ InsertTerminator([op |-> "Return", succ |-> <<>>], <<>>)

CreateUnreachable ==
  /\ Building
  /\ InsertTerminator([op |-> "Unreachable", succ |-> <<>>], <<>>)

\* FIRBuilder builder{block}
InitBuilder ==
  /\ pc = "building"
  /\ fir \in {[cursor |-> block, preds |-> [b \in Blocks |-> {}],
               stmts |-> <<>>] : block \in Blocks}
  /\ ctx = NoContext
  /\ expr = Aborted
  /\ result = Aborted
  /\ first = Aborted
  /\ messages = <<>>
  /\ dead = FALSE
  /\ folder = NoFolder

NextBuilder ==
  \/ SetInsertionPoint
  \/ ClearInsertionPoint
  \/ CreateExpr
  \/ CreateBranch
  \/ CreateConditionalBranch
  \/ CreateSwitch
  \/ CreateIndirectBr
  \/ CreateReturn
  \/ CreateUnreachable

SpecBuilder == InitBuilder /\ [][NextBuilder]_vars

(***************************************************************************)
(* Properties.                                                             *)
(***************************************************************************)
References == {"FunctionRef", "CoarrayRef"}

\* The first fold of a binary operation over operands l and r has returned
\* or aborted.
FoldedBinary ==
  /\ pc \in {"folded", "aborted"}
  /\ expr.tag \in {"Add", "Subtract", "Multiply", "Divide"}
  /\ Len(expr.args) = 2

IsConstantArray(e) == IsConstant(e) /\ Len(e.shape) > 0

\* C1: Fold returns a well-formed expression for every well-typed input and
\* every context and never aborts: no common::die call and no failed CHECK
\* is reachable while folding.
C1_FoldNeverAborts == dead = FALSE /\ pc # "aborted"

\* C2: folding is idempotent: folding the result of a fold once more, in the
\* same context, returns a structurally equal expression (and does not
\* abort).
C2_FoldIdempotent ==
  /\ pc = "refolded" => result = first
  /\ pc = "aborted" => first.tag = "Aborted"

\* C3: a binary elementwise operation over two constant arrays of identical
\* shape folds to a Constant of that shape whose element at each position of
\* the array element order is the scalar operation applied to the two operand
\* elements at that position; no diagnostic is emitted when no element raises
\* a numeric flag.
C3_SameShapeElementwise ==
  (/\ FoldedBinary
   /\ expr.tag \in {"Add", "Divide"}
   /\ IsConstantArray(expr.args[1]) /\ IsConstantArray(expr.args[2])
   /\ expr.args[1].shape = expr.args[2].shape)
  => LET l == expr.args[1]
         r == expr.args[2]
         exact(k) == IF expr.tag = "Add" THEN l.val[k] + r.val[k]
                     ELSE l.val[k] \div r.val[k]
         flagged == \E k \in 1..Len(l.val) : exact(k) \notin -128..127
     IN /\ pc = "folded"
        /\ result.tag = "Constant"
        /\ result.cat = expr.cat /\ result.kind = expr.kind
        /\ result.shape = l.shape
        /\ Len(result.val) = Product(l.shape)
        /\ \A k \in 1..Len(l.val) :
             result.val[k] = ((exact(k) + 128) % 256) - 128
        /\ ~flagged => messages = <<>>

\* C3 witness: [[1,2],[3,4]] + [[10,20],[30,40]] was folded.
C3_Witness ==
  /\ pc = "folded"
  /\ expr = Binary("Add", ArrayConstant(<<2, 2>>, "unit"),
                   ArrayConstant(<<2, 2>>, "tens"))
  /\ result = Constant("Integer", 1, <<11, 22, 33, 44>>, <<2, 2>>)
  /\ messages = <<>>

\* C4: a binary elementwise operation whose operands are constant arrays with
\* different known shapes emits exactly one 'not conformable' error and
\* returns the operation unfolded with its operands folded; it never returns
\* a constant array.
C4_MismatchedShapesUnfolded ==
  (/\ FoldedBinary
   /\ IsConstantArray(expr.args[1]) /\ IsConstantArray(expr.args[2])
   /\ expr.args[1].shape # expr.args[2].shape)
  => /\ pc = "folded"
     /\ result = expr
     /\ messages = <<Say("err", "shapes are not conformable", 0)>>

\* C5: a binary elementwise operation over a constant array and a scalar
\* constant (array on the left or on the right) folds to a Constant array
\* with the array operand's shape whose element i is the operation applied to
\* element i of the array and the scalar.
C5_ArrayScalarLifted ==
  (/\ FoldedBinary
   /\ expr.tag = "Add"
   /\ \/ IsConstantArray(expr.args[1]) /\ IsScalarConstant(expr.args[2])
      \/ IsScalarConstant(expr.args[1]) /\ IsConstantArray(expr.args[2]))
  => LET array == IF IsConstantArray(expr.args[1]) THEN expr.args[1]
                  ELSE expr.args[2]
         scalar == IF IsConstantArray(expr.args[1]) THEN expr.args[2]
                   ELSE expr.args[1]
     IN /\ pc = "folded"
        /\ result.tag = "Constant"
        /\ result.shape = array.shape
        /\ Len(result.val) = Len(array.val)
        /\ \A k \in 1..Len(array.val) :
             result.val[k] = ((array.val[k] + scalar.val[1] + 128) % 256) - 128

FoldedImpliedDo ==
  /\ pc \in {"folded", "aborted"}
  /\ expr.tag = "ArrayConstructor" /\ Len(expr.args) = 1
  /\ expr.args[1].tag = "ImpliedDo" /\ expr.args[1].name = "i"
  /\ IsInt64(IdoLower(expr.args[1])) /\ IsInt64(IdoUpper(expr.args[1]))
  /\ IsInt64(IdoStride(expr.args[1]))

\* C7: folding an array constructor that contains an implied DO with
\* constant bounds appends the body's values once per index value
\* j = lower, lower+stride, ... in that order, while j <= upper for a
\* positive stride and while j >= upper for a negative one (no iteration for
\* an empty range), with the index bound to j inside the body and inside
\* nested implied DOs; with stride 0 the constructor is returned unfolded and
\* no diagnostic is emitted.
C7_ImpliedDoUnrolled ==
  (FoldedImpliedDo /\ ToInt64(IdoUpper(expr.args[1])) <= 11)
  => LET l == ToInt64(IdoLower(expr.args[1]))
         u == ToInt64(IdoUpper(expr.args[1]))
         s == ToInt64(IdoStride(expr.args[1]))
         b == IdoValues(expr.args[1])
         n == IF s > 0 THEN (IF u < l THEN 0 ELSE (u - l) \div s + 1)
              ELSE IF s < 0 THEN (IF u > l THEN 0 ELSE (l - u) \div (-s) + 1)
              ELSE 0
         constantBody ==
           /\ b # <<n8, i8>>
           /\ b = <<Binary("Add", i8, k8)>> => "k" \in DOMAIN ctx.ido
         body(j) ==
           IF b = <<i8>> THEN <<j>>
           ELSE IF b = <<i8, Int8(7)>> THEN <<j, 7>>
           ELSE IF b = <<Binary("Add", i8, k8)>> THEN <<j + ctx.ido["k"]>>
           ELSE IF b[1].tag = "ImpliedDo" THEN [jj \in 1..j |-> 10 * j + jj]
           ELSE <<j * j>>
         RECURSIVE Unroll(_)
         Unroll(t) == IF t > n THEN <<>>
                      ELSE body(l + (t - 1) * s) \o Unroll(t + 1)
     IN /\ pc = "folded"
        /\ IF s = 0 THEN result = expr /\ messages = <<>>
           ELSE IF constantBody \/ n = 0
             THEN /\ result = Constant(expr.cat, expr.kind, Unroll(1),
                                       <<Len(Unroll(1))>>)
                  /\ messages = <<>>
           ELSE result.tag = "ArrayConstructor"

\* C7 witness: [(i, 7, i = 3, -1, -2)] was unrolled downwards.
C7_Witness ==
  /\ pc = "folded"
  /\ expr = ArrayConstructor("Integer", 8,
              <<ImpliedDo("i", Int8(3), Int8(-1), Int8(-2), <<i8, Int8(7)>>)>>)
  /\ result = Constant("Integer", 8, <<3, 7, 1, 7, -1, 7>>, <<6>>)

\* C8: for constant INTEGER(K) operands a and b, Add(a, b) folds to the
\* Constant holding the sum reduced modulo 2^(8K) and read as a signed
\* two's-complement value, and the 'INTEGER(K) addition overflowed'
\* diagnostic is emitted if and only if the mathematical sum lies outside the
\* kind's range.  The sum is formed here in two half-width limbs.
C8_AddWrapsAndDiagnoses ==
  (/\ pc \in {"folded", "aborted"}
   /\ expr.tag = "Add" /\ expr.kind \in {1, 4}
   /\ IsScalarConstant(expr.args[1]) /\ IsScalarConstant(expr.args[2]))
  => LET a == expr.args[1].val[1]
         b == expr.args[2].val[1]
         H == IF expr.kind = 1 THEN 16 ELSE 65536
         lo == (a % H) + (b % H)
         hi == (a \div H) + (b \div H) + (lo \div H)
         wrapped == (((hi + H \div 2) % H) - H \div 2) * H + (lo % H)
         outside == hi < -(H \div 2) \/ hi >= H \div 2
     IN /\ pc = "folded"
        /\ result = ScalarConstant("Integer", expr.kind, wrapped)
        /\ messages = IF outside
                        THEN <<Say("en", "INTEGER addition overflowed",
                                   expr.kind)>>
                        ELSE <<>>

\* C8 witness: 2000000000 + 2000000000 in kind 4 wrapped and was diagnosed.
C8_Witness ==
  /\ pc = "folded"
  /\ expr = Binary("Add", Int4(2000000000), Int4(2000000000))
  /\ result = Int4(-294967296)
  /\ messages = <<Say("en", "INTEGER addition overflowed", 4)>>

\* C9: for constant INTEGER(K) operands, Divide(a, 0) folds to a Constant
\* (not the Divide node) and emits 'INTEGER(K) division by zero'; a division
\* by a nonzero constant that does not overflow folds to the quotient
\* truncated toward zero and emits no diagnostic.
C9_DivideByZeroAndTruncation ==
  (/\ pc \in {"folded", "aborted"}
   /\ expr.tag = "Divide"
   /\ IsScalarConstant(expr.args[1]) /\ IsScalarConstant(expr.args[2]))
  => LET a == expr.args[1].val[1]
         b == expr.args[2].val[1]
         q == result.val[1]
         r == a - q * b
     IN /\ pc = "folded"
        /\ IsScalarConstant(result)
        /\ result.cat = "Integer" /\ result.kind = expr.kind
        /\ b = 0 =>
             messages = <<Say("en", "INTEGER division by zero", expr.kind)>>
        /\ (b # 0 /\ ~(a = -HUGE(expr.kind) - 1 /\ b = -1)) =>
             /\ messages = <<>>
             /\ a >= 0 => r >= 0 /\ (b > 0 => r < b) /\ (b < 0 => -r > b)
             /\ a < 0 => r <= 0 /\ (b > 0 => -r < b) /\ (b < 0 => r > b)

\* C9 witness: 100 / 0 in kind 1 folded to a constant with the diagnostic.
C9_Witness ==
  /\ pc = "folded"
  /\ expr = Binary("Divide", Int1(100), Int1(0))
  /\ result.tag = "Constant"
  /\ messages = <<Say("en", "INTEGER division by zero", 1)>>

\* C10: parentheses are never elided: Parentheses(x) folds to Parentheses of
\* the folded operand with the operand's diagnostics; around a constant the
\* expression is returned as it is, and Parentheses(Add(1, 2)) folds to
\* Parentheses(Constant(3)) without a diagnostic.
C10_ParenthesesKept ==
  (pc \in {"folded", "aborted"} /\ expr.tag = "Parentheses")
  => /\ pc = "folded"
     /\ result.tag = "Parentheses" /\ Len(result.args) = 1
     /\ result.cat = expr.cat /\ result.kind = expr.kind
     /\ result.args[1] = Fold(ctx, expr.args[1]).e
     /\ messages = Fold(ctx, expr.args[1]).m
     /\ IsConstant(expr.args[1]) => result = expr /\ messages = <<>>
     /\ expr.args[1] = Binary("Add", Int1(1), Int1(2)) =>
          result = Unary("Parentheses", Int1(3)) /\ messages = <<>>

\* C10 witness: Parentheses(Add(1, 2)) was folded.
C10_Witness ==
  /\ pc = "folded"
  /\ expr = Unary("Parentheses", Binary("Add", Int1(1), Int1(2)))
  /\ result = Unary("Parentheses", Int1(3))

\* C11: constant preservation: folding an expression that already is a
\* Constant (scalar or array) returns an equal expression, appends nothing to
\* the messages and leaves the context, with its implied-DO map, unchanged.
C11_ConstantPreserved ==
  [][(pc = "start" /\ IsConstant(expr))
       => /\ pc' = "folded"
          /\ result' = expr
          /\ messages' = messages
          /\ ctx' = ctx]_vars

\* C11 witness: a rank-2 constant array was folded in a context whose
\* implied-DO map is not empty.
C11_Witness ==
  /\ pc = "folded"
  /\ expr = ArrayConstant(<<2, 2>>, "tens")
  /\ result = expr /\ messages = <<>>
  /\ "k" \in DOMAIN ctx.ido

\* C12: for every REAL intrinsic of the host table (the one-argument
\* functions, atan with one or two arguments, atan2, hypot, mod), when the
\* context offers no host-library entry, Fold emits exactly one informational
\* 'cannot be folded on host' diagnostic and returns the function reference
\* intact.
C12_NoHostEntryLeavesCall ==
  (/\ pc \in {"folded", "aborted"}
   /\ expr.tag = "FunctionRef" /\ expr.cat = "Real"
   /\ expr.proc = "intrinsic"
   /\ expr.name \in HostUnary \cup HostBinary
   /\ ctx.host = {})
  => /\ pc = "folded"
     /\ result = expr
     /\ Len(messages) = 1
     /\ messages[1].sev = "en"

\* C13: a reference to the intrinsic ishft(i, n) with constant integer
\* arguments folds to the Constant ISHFT(i, n), as ibclr, ibset, shifta,
\* shiftl and shiftr fold to IBCLR, IBSET, SHIFTA, SHIFTL and SHIFTR: each
\* name entering the branch selects its own function.
C13_ShiftIntrinsicsFolded ==
  (/\ pc \in {"folded", "aborted"}
   /\ expr.tag = "FunctionRef" /\ expr.cat = "Integer"
   /\ expr.proc = "intrinsic" /\ expr.name \in ShiftNames
   /\ IsScalarConstant(expr.args[1]) /\ IsScalarConstant(expr.args[2]))
  => LET i == expr.args[1].val[1]
         n == expr.args[2].val[1]
         K == expr.kind
         value == CASE expr.name = "ibclr" -> IBCLR(K, i, n)
                    [] expr.name = "ibset" -> IBSET(K, i, n)
                    [] expr.name = "ishft" -> ISHFT(K, i, n)
                    [] expr.name = "shifta" -> SHIFTA(K, i, n)
                    [] expr.name = "shiftr" -> SHIFTR(K, i, n)
                    [] expr.name = "shiftl" -> SHIFTL(K, i, n)
     IN /\ pc = "folded"
        /\ result = ScalarConstant("Integer", K, value)

\* The first fold of size(array, dim) with a constant dim has returned or
\* aborted.
FoldedSizeWithDim ==
  /\ pc \in {"folded", "aborted"}
  /\ expr.tag = "FunctionRef" /\ expr.cat = "Integer"
  /\ expr.proc = "intrinsic" /\ expr.name = "size"
  /\ Len(expr.args) = 2 /\ IsInt64(expr.args[2])

\* C14: for size(array, dim=k) with an inferable shape of rank r and a
\* constant k: when 1 <= k <= r and the k-th extent is known the result is
\* the constant of the result type equal to that extent, without a
\* diagnostic; when k < 1 or k > r exactly one 'dimension is out of range'
\* diagnostic is emitted, reported as an error, and the function reference is
\* returned unfolded.
C14_SizeWithDim ==
  FoldedSizeWithDim
  => LET k == expr.args[2].val[1]
         shape == IF expr.args[1].tag = "ArrayConstructor"
                    THEN <<Len(expr.args[1].args)>>
                    ELSE expr.args[1].shape
     IN /\ pc = "folded"
        /\ (k >= 1 /\ k <= Len(shape) /\ shape[k] # Unknown) =>
             /\ result = ScalarConstant("Integer", expr.kind, shape[k])
             /\ messages = <<>>
        /\ (k < 1 \/ k > Len(shape)) =>
             /\ result = expr
             /\ Len(messages) = 1
             /\ messages[1].sev = "err"

\* C15: shape preservation.  For every expression whose shape is inferable
\* with constant extents, the shape of the folded expression has the same rank
\* and the same extents; an array constructor holding an implied DO with
\* constant bounds folds to a Constant whose extent is
\* (body extent) * max(0, (upper - lower + stride) / stride).
C15_ShapePreserved ==
  (pc = "folded" /\ AsConstantExtents(GetShape(expr).shape).has)
  => /\ GetShape(result) = GetShape(expr)
     /\ (/\ expr.tag = "ArrayConstructor" /\ Len(expr.args) = 1
         /\ expr.args[1].tag = "ImpliedDo"
         /\ IsInt64(IdoLower(expr.args[1]))
         /\ IsInt64(IdoUpper(expr.args[1]))
         /\ IsInt64(IdoStride(expr.args[1]))
         /\ result.tag = "Constant")
        => LET ido == expr.args[1]
               l == ToInt64(IdoLower(ido))
               u == ToInt64(IdoUpper(ido))
               s == ToInt64(IdoStride(ido))
           IN result.shape =
                <<GetExtentOfValues(IdoValues(ido))
                    * Max(0, DivideSigned(8, u - l + s, s).quotient)>>

\* The first fold of an Extremum over two scalar constants has returned or
\* aborted.
FoldedExtremum ==
  /\ pc \in {"folded", "aborted"}
  /\ expr.tag = "Extremum"
  /\ IsScalarConstant(expr.args[1]) /\ IsScalarConstant(expr.args[2])

\* C16: for Extremum over two constant Real operands the result is the first
\* operand whenever either operand is NaN and whenever the operands compare
\* equal, for MAX (Ordering::Greater) and for MIN (Ordering::Less); otherwise
\* it is the greater operand for MAX and the lesser for MIN.  For Integer and
\* Character operands the larger/smaller operand wins and ties return the
\* first operand.
C16_ExtremumSelects ==
  FoldedExtremum
  => LET x == expr.args[1]
         y == expr.args[2]
         relation == IF expr.cat = "Real" THEN CompareReal(x.val[1], y.val[1])
                     ELSE IF expr.cat = "Integer"
                       THEN CompareSigned(x.val[1], y.val[1])
                     ELSE Compare(x.val, y.val)
     IN /\ pc = "folded"
        /\ messages = <<>>
        /\ result = IF relation \in {"Unordered", "Equal"} THEN x
                    ELSE IF relation = expr.name THEN x
                    ELSE y

\* The first fold of a Power over two scalar integer constants has returned
\* or aborted.
FoldedIntegerPower ==
  /\ pc \in {"folded", "aborted"}
  /\ expr.tag = "Power" /\ expr.cat = "Integer"
  /\ IsInt64(expr.args[1]) /\ IsInt64(expr.args[2])

\* Whether base**n, n > 0, lies outside INTEGER(kind): the magnitude is
\* followed until it leaves the range.
RECURSIVE PowerLeavesRange(_, _, _, _)
PowerLeavesRange(kind, base, n, acc) ==
  IF ~InRange(kind, acc) THEN TRUE
  ELSE IF n = 0 THEN FALSE
  ELSE PowerLeavesRange(kind, base, n - 1, acc * base)

\* C17: folding Power over two constant integers always returns a Constant
\* and emits at most one diagnostic: 'zero to negative power' if and only if
\* the base is 0 and the exponent negative, 'power overflowed' when the power
\* overflows, '0**0 is not defined' for base 0 with exponent 0; a base other
\* than 0 with a negative exponent emits no division-by-zero diagnostic.
C17_IntegerPowerDiagnostics ==
  FoldedIntegerPower
  => LET base == expr.args[1].val[1]
         exponent == expr.args[2].val[1]
         Emitted(text) == \E i \in 1..Len(messages) : messages[i].text = text
     IN /\ pc = "folded"
        /\ result.tag = "Constant" /\ result.cat = "Integer"
        /\ result.kind = expr.kind /\ result.shape = <<>>
        /\ Len(messages) <= 1
        /\ Emitted("INTEGER zero to negative power")
             <=> (base = 0 /\ exponent < 0)
        /\ Emitted("INTEGER power overflowed")
             <=> (exponent > 0 /\ PowerLeavesRange(expr.kind, base, exponent, 1))
        /\ Emitted("INTEGER 0**0 is not defined")
             <=> (base = 0 /\ exponent = 0)

\* C17 witness: 2**7 in INTEGER(1) has been folded to the wrapped constant
\* -128 with the overflow diagnostic alone.
C17_Witness ==
  /\ FoldedIntegerPower /\ pc = "folded" /\ expr.kind = 1
  /\ expr.args[1].val[1] = 2 /\ expr.args[2].val[1] = 7
  /\ result = Int1(-128)
  /\ Len(messages) = 1 /\ messages[1].text = "INTEGER power overflowed"

\* The first fold of SetLength(s, n) over a constant string and a constant
\* length has returned or aborted.
FoldedSetLength ==
  /\ pc \in {"folded", "aborted"}
  /\ expr.tag = "SetLength"
  /\ IsScalarConstant(expr.args[1]) /\ IsInt64(expr.args[2])

\* C18: folding SetLength(s, n) with a constant string s and a constant
\* requested length n returns a Constant of length exactly n for every
\* requested n: the first min(n, len(s)) characters of s followed by
\* n - len(s) blanks when n > len(s); no requested length makes the fold fail
\* its length check or abort.
C18_SetLengthExact ==
  FoldedSetLength
  => LET string == expr.args[1].val
         n == expr.args[2].val[1]
     IN /\ pc = "folded"
        /\ messages = <<>>
        /\ result.tag = "Constant" /\ result.cat = "Character"
        /\ result.kind = expr.kind /\ result.shape = <<>>
        /\ Len(result.val) = n
        /\ \A i \in 1..n :
             result.val[i] = IF i <= Len(string) THEN string[i] ELSE 32

\* The first fold of a Convert between distinct character kinds over a
\* constant scalar operand has returned or aborted.
FoldedCharacterConvert ==
  /\ pc \in {"folded", "aborted"}
  /\ expr.tag = "Convert" /\ expr.cat = "Character"
  /\ IsScalarConstant(expr.args[1]) /\ expr.args[1].cat = "Character"
  /\ expr.args[1].kind # expr.kind

\* C19: folding a Convert between distinct character kinds with a constant
\* scalar operand yields a Constant with the same code points if and only if
\* every code point is <= 127; if any code point exceeds 127 the Convert node
\* is returned in place, its operand preserved, and no diagnostic is emitted.
C19_CharacterConvertAscii ==
  FoldedCharacterConvert
  => LET string == expr.args[1].val
         ascii == \A i \in 1..Len(string) : string[i] <= 127
     IN /\ pc = "folded"
        /\ messages = <<>>
        /\ ascii => result = ScalarConstant("Character", expr.kind, string)
        /\ ~ascii => result = expr

\* C19 witness: a CHARACTER(1) constant holding code point 200 has been
\* converted to kind 4 and the Convert node came back unchanged.
C19_Witness ==
  /\ FoldedCharacterConvert /\ pc = "folded"
  /\ expr.kind = 4 /\ expr.args[1].kind = 1
  /\ expr.args[1].val = <<200, 97>>
  /\ result = expr /\ messages = <<>>

BinaryTags ==
  {"Add", "Subtract", "Multiply", "Divide", "Power", "Extremum", "SetLength"}

\* C20: diagnostics are appended to the message sink in post-order over the
\* expression tree: for an operation node every diagnostic raised while
\* folding its left operand precedes every diagnostic raised for its right
\* operand, and both precede the diagnostics of the operation's own
\* evaluation; a fold only appends to the sink and never removes or reorders
\* what is already there.
C20_DiagnosticsPostOrder ==
  [][/\ Len(messages) <= Len(messages')
     /\ SubSeq(messages', 1, Len(messages)) = messages
     /\ (pc = "start" /\ pc' = "folded" /\ expr.tag \in BinaryTags)
        => LET Precede(operands) ==
                 /\ Len(operands) <= Len(messages')
                 /\ SubSeq(messages', 1, Len(operands)) = operands
           IN Precede(Fold(ctx, expr.args[1]).m \o Fold(ctx, expr.args[2]).m)
    ]_vars

\* C20 witness: (100 + 100) * (-128 / -1) has been folded; the sink holds the
\* left operand's overflow, then the right operand's, then the product's own.
C20_Witness ==
  /\ pc = "folded"
  /\ expr = Binary("Multiply", Binary("Add", Int1(100), Int1(100)),
                   Binary("Divide", Int1(-128), Int1(-1)))
  /\ Len(messages) = 3
  /\ messages[1].text = "INTEGER addition overflowed"
  /\ messages[2].text = "INTEGER division overflowed"
  /\ messages[3].text = "INTEGER multiplication overflowed"

\* The first fold of a + (-a) over a constant integer a has returned or
\* aborted.
FoldedInverse ==
  /\ pc \in {"folded", "aborted"}
  /\ expr.tag = "Add" /\ expr.cat = "Integer"
  /\ IsInt64(expr.args[1])
  /\ expr.args[2] = Unary("Negate", expr.args[1])

\* C21: for every constant Integer(K) a whose negation does not overflow (a
\* is not the most negative value of the kind), Fold(Add(a, Negate(a))) is
\* the Constant 0 and no diagnostic is emitted.
C21_AddOfNegationIsZero ==
  (FoldedInverse
   /\ (Wide(expr.kind) \/ expr.args[1].val[1] # -HUGE(expr.kind) - 1))
  => /\ pc = "folded"
     /\ result = ScalarConstant("Integer", expr.kind, 0)
     /\ messages = <<>>

\* C21 witness: 2147483647 + (-2147483647) in INTEGER(4) has been folded to 0
\* without a diagnostic.
C21_Witness ==
  /\ FoldedInverse /\ pc = "folded"
  /\ expr.kind = 4 /\ expr.args[1].val[1] = 2147483647
  /\ result = Int4(0) /\ messages = <<>>

\* The names of the implied DOs being unrolled by the folder.
ActiveNames == {folder.frames[i].name : i \in 2..Len(folder.frames)}

\* C22: implied-DO index bindings are scoped and balanced.  At every step of
\* the folder the names bound in its map are the caller's names and the
\* names of the implied DOs whose loop is active, the caller's bindings keep
\* their values, an implied DO with stride 0 or a non-constant bound creates
\* no binding, and the caller's own map never changes; so every
\* StartImpliedDo is matched by one EndImpliedDo whether the body folds, fails
\* to fold or is never entered, and when FoldArray returns the map is the one
\* the call began with.
C22_ImpliedDoBindingsBalanced ==
  [][/\ ctx' = ctx
     /\ pc' \notin {"construct", "aborted"}
        => /\ DOMAIN folder'.context.ido = DOMAIN ctx.ido \cup ActiveNames'
           /\ \A n \in DOMAIN ctx.ido : folder'.context.ido[n] = ctx.ido[n]
     /\ pc' = "returned" => folder'.context.ido = ctx.ido
     /\ (/\ pc = "values"
         /\ Top(folder.frames).k <= Len(Top(folder.frames).values)
         /\ Top(folder.frames).values[Top(folder.frames).k].tag = "ImpliedDo"
         /\ \/ IdoUpper(Top(folder.frames).values[Top(folder.frames).k]) = n8
            \/ IdoStride(Top(folder.frames).values[Top(folder.frames).k])
                 = Int8(0))
        => /\ folder'.context = folder.context
           /\ Len(folder'.frames) <= Len(folder.frames)
    ]_vars

\* C22 witness: a constructor whose implied DO ran over a body that does not
\* fold has returned false, and the folder's map is again the caller's, which
\* binds k.
C22_Witness ==
  /\ pc = "returned" /\ ~folder.ok
  /\ expr.args[1].tag = "ImpliedDo"
  /\ IdoValues(expr.args[1]) = <<n8, i8>>
  /\ IdoLower(expr.args[1]) = Int8(0) /\ IdoUpper(expr.args[1]) = Int8(2)
  /\ IdoStride(expr.args[1]) = Int8(1)
  /\ "k" \in DOMAIN ctx.ido
  /\ folder.context.ido = ctx.ido

\* C28: unrolling an implied DO with constant bounds and nonzero stride
\* terminates for every lower, upper and stride of the index type: the loop
\* index j, advanced by j += stride, always eventually fails the test
\* j <= upper (positive stride) or j >= upper (negative stride), including
\* when upper lies within |stride| of the largest or smallest integer, so that
\* the increment wraps; the folder therefore always comes to an end, be it
\* by returning or by the end of the process.
C28_UnrollTerminates == <>(pc \in {"returned", "aborted"})

\* The first fold of an array constructor has returned, and one of its
\* elements, or a bound of one of its implied DOs, does not fold to a
\* constant.
FoldedNonConstantArray ==
  /\ pc = "folded"
  /\ expr.tag = "ArrayConstructor"
  /\ \E i \in 1..Len(expr.args) :
       IF expr.args[i].tag = "ImpliedDo"
         THEN \E b \in 1..3 : ~IsInt64(Fold(ctx, expr.args[i].args[b]).e)
         ELSE ~IsConstant(Fold(ctx, expr.args[i]).e)

\* C23: when an array constructor has at least one element or implied-DO
\* bound that does not fold to a constant, Fold returns an ArrayConstructor
\* (never a Constant) with the original element structure in which every
\* foldable subtree is replaced by its folded form ([1+2, x] comes back as
\* [3, x]), and emits no diagnostic for the abandonment.
C23_AbandonedArrayHasFoldedElements ==
  FoldedNonConstantArray
  => /\ result.tag = "ArrayConstructor"
     /\ Len(result.args) = Len(expr.args)
     /\ \A i \in 1..Len(expr.args) :
          IF expr.args[i].tag = "ImpliedDo"
            THEN /\ result.args[i].tag = "ImpliedDo"
                 /\ \A b \in 1..3 :
                      result.args[i].args[b] = Fold(ctx, expr.args[i].args[b]).e
            ELSE result.args[i] = Fold(ctx, expr.args[i]).e
     /\ \A m \in 1..Len(messages) : messages[m].sev # "err"

(***************************************************************************)
(* Shape consistency of constants.                                         *)
(***************************************************************************)
\* Number of elements stored in a Constant; a CHARACTER scalar keeps the
\* code points of its one element in val, a scalar of derived type the
\* components of its one element in args.
ConstantSize(k) ==
  IF k.cat \in {"Character", "Derived"} /\ k.shape = <<>> THEN 1
  ELSE Len(k.val)

\* C24: every Constant that Fold returns has a shape whose product of
\* extents equals the number of elements it stores; this covers the constant
\* built by the array constructor folder and the constant whose shape
\* FromArrayConstructor overwrites after an elementwise lift, also when the
\* flat operand constructor holds array-valued elements.
C24_ConstantShapeMatchesElements ==
  (pc \in {"folded", "refolded"} /\ IsConstant(result))
    => /\ \A d \in 1..Len(result.shape) : result.shape[d] >= 0
       /\ Product(result.shape) = ConstantSize(result)

\* Negating [([1,2]),3], a flat constructor of two values one of which is an
\* array, is lifted and yields a constant of three elements and shape [3].
C24_Witness ==
  /\ pc = "folded"
  /\ expr.tag = "Negate" /\ expr.args[1] \in NestedArrays
  /\ Len(expr.args[1].args) = 2
  /\ IsConstant(result) /\ result.shape = <<3>> /\ Len(result.val) = 3

(***************************************************************************)
(* Elemental intrinsic functions of constant arguments.                    *)
(***************************************************************************)
\* The member function the dispatch of FoldOperation(FunctionRef) hands to
\* FoldElementalIntrinsic for an intrinsic name, "die" when it selects none.
ElementalFunction(name) ==
  IF name \in ShiftNames THEN ShiftFunction(name)
  ELSE IF name \in BitwiseNames THEN BitwiseFunction(name)
  ELSE IF name \in CompareNames THEN CompareFunction(name)
  ELSE "die"

\* A reference to an elemental intrinsic, all of whose arguments are
\* INTEGER constants, has been folded.
FoldedElementalIntrinsic ==
  /\ pc \in {"folded", "aborted"}
  /\ expr.tag = "FunctionRef" /\ expr.proc = "intrinsic"
  /\ ElementalFunction(expr.name) # "die"
  /\ \A i \in 1..Len(expr.args) :
        IsConstant(expr.args[i]) /\ expr.args[i].cat = "Integer"

ArrayArguments == {i \in 1..Len(expr.args) : Len(expr.args[i].shape) > 0}

TripValues(l, u, s) ==
  IF s > 0 THEN {j \in l..u : (j - l) % s = 0}
  ELSE {j \in u..l : (l - j) % (-s) = 0}

\* An implied DO index occurs somewhere in e.
MentionsIndex(e) == CountNodes(<<e>>, {"ImpliedDoIndex"}) > 0

RECURSIVE ExpectedExtent(_)
\* The extent the rule for array constructors gives a list of values:
\* elements add the product of their shape, implied DOs with constant
\* bounds the extent of their body once per index value; Unknown for a
\* bound that mentions an implied DO index and for an unknown term.  Implied
\* DOs whose bounds are neither are left to the caller (-2).
ExpectedExtent(values) ==
  LET v == Head(values)
      Term ==
        IF v.tag # "ImpliedDo"
          THEN IF \E d \in 1..Len(GetShape(v).shape) :
                    GetShape(v).shape[d] = Unknown
                 THEN Unknown
                 ELSE Product(GetShape(v).shape)
        ELSE IF MentionsIndex(IdoLower(v)) \/ MentionsIndex(IdoUpper(v))
                  \/ MentionsIndex(IdoStride(v))
          THEN Unknown
        ELSE IF IsInt64(IdoLower(v)) /\ IsInt64(IdoUpper(v))
                  /\ IsInt64(IdoStride(v)) /\ ToInt64(IdoStride(v)) # 0
          THEN LET body == ExpectedExtent(IdoValues(v))
               IN IF body < 0 THEN body
                  ELSE body * Cardinality(TripValues(ToInt64(IdoLower(v)),
                                ToInt64(IdoUpper(v)), ToInt64(IdoStride(v))))
        ELSE -2
      Sum(term, rest) ==
        IF term = -2 \/ rest = -2 THEN -2
        ELSE IF term = Unknown \/ rest = Unknown THEN Unknown
        ELSE term + rest
  IN IF values = <<>> THEN 0 ELSE Sum(Term, ExpectedExtent(Tail(values)))

\* C26: GetShape of an array constructor is always a shape of rank 1; its
\* extent is the sum over the values of the size of an expression element
\* and of (extent of the body) * (number of trips) for an implied DO, and
\* it is unknown when a bound of an implied DO mentions an implied DO index
\* or the extent of an element is unknown.
C26_ArrayConstructorShape ==
  expr.tag = "ArrayConstructor"
    => /\ GetShape(expr).has /\ Len(GetShape(expr).shape) = 1
       /\ ExpectedExtent(expr.args) # -2
            => GetShape(expr).shape[1] = ExpectedExtent(expr.args)

\* The constructor [(i, 7, i = 1, 3)] has been given the extent 2 * 3.
C26_Witness ==
  /\ expr.tag = "ArrayConstructor" /\ Len(expr.args) = 1
  /\ expr.args[1].tag = "ImpliedDo" /\ Len(IdoValues(expr.args[1])) = 2
  /\ IdoLower(expr.args[1]) = Int8(1) /\ IdoUpper(expr.args[1]) = Int8(3)
  /\ IdoStride(expr.args[1]) = Int8(1)
  /\ GetShape(expr) = SomeShape(<<6>>)
  /\ pc = "folded"

(***************************************************************************)
(* Implied DO index references.                                            *)
(***************************************************************************)
\* C27: folding a reference to the implied DO index name returns the
\* SubscriptInteger (INTEGER(8)) constant v when the context's implied DO
\* map binds name to v and the reference itself when it does not; the map
\* and the messages are left as they were.
C27_ImpliedDoIndexLookup ==
  [][(pc = "start" /\ expr.tag = "ImpliedDoIndex")
       => /\ pc' = "folded"
          /\ ctx' = ctx /\ messages' = messages
          /\ expr.name \in DOMAIN ctx.ido
               => result' = Constant("Integer", 8, <<ctx.ido[expr.name]>>,
                                     <<>>)
          /\ expr.name \notin DOMAIN ctx.ido => result' = expr]_vars

\* The reference to k has been folded to 2 where k is bound to 2.
C27_Witness ==
  /\ pc = "folded" /\ expr = k8
  /\ "k" \in DOMAIN ctx.ido /\ ctx.ido["k"] = 2
  /\ result = Int8(2) /\ messages = <<>>

(***************************************************************************)
(* Structure constructors.                                                 *)
(***************************************************************************)
\* C29: folding a structure constructor yields a Constant of derived type
\* only if every component value folded to a constant; when a component
\* stays non-constant after folding, the result is a StructureConstructor
\* holding the folded components.
C29_DerivedConstantHasConstantComponents ==
  (pc = "folded" /\ expr.tag = "StructureConstructor")
    => /\ IsConstant(result)
            => \A i \in 1..Len(result.args) : IsConstant(result.args[i])
       /\ (\E i \in 1..Len(expr.args) :
              ~IsConstant(Fold(ctx, expr.args[i]).e))
            => /\ result.tag = "StructureConstructor"
               /\ result.args =
                    [i \in 1..Len(expr.args) |-> Fold(ctx, expr.args[i]).e]

(***************************************************************************)
(* The FIR builder.                                                        *)
(***************************************************************************)
Terminators == {"Branch", "Switch", "IndirectBranch", "Return", "Unreachable"}

====
